---- MODULE Spec2Model ----
(***************************************************************************)
(* Canvas context tree (Tree / TreeNode), compressed set store             *)
(* (BitmapManager) and document index (IndexD) as state machines.          *)
(*                                                                         *)
(* A path string is modelled by the sequence path.split('/') yields, so    *)
(* "/a/ab" is <<"", "a", "ab">>, "/" is <<"", "">>, "" is <<"">> and       *)
(* "/a/" is <<"", "a", "">>.  TreeNode objects live in a heap indexed by   *)
(* references, so that object identity (sharing) is part of the state.     *)
(***************************************************************************)
EXTENDS Integers, Sequences, FiniteSets, TLC

VARIABLES nodes, root, layers, treeIndex, lastOp,
          documents, hash2oid, bitmaps, lastIx, calls,
          db, cache, lastBm

treeVars == <<nodes, root, layers, treeIndex, lastOp>>
indexVars == <<documents, hash2oid, bitmaps, lastIx, calls>>
bitmapVars == <<db, cache, lastBm>>
vars == <<nodes, root, layers, treeIndex, lastOp, documents, hash2oid, bitmaps, lastIx, calls,
          db, cache, lastBm>>

(***************************************************************************)
(* Bounds and input sets                                                   *)
(***************************************************************************)
\* largest number of non-root TreeNodes an operation may leave in the tree
MaxNodes == 3

\* layer names used in paths; "a" is a substring of "ab"
Names == {"a", "ab"}

\* the characters of a name, for String.prototype.includes
Chars(name) ==
    CASE name = "a" -> <<"a">>
      [] name = "ab" -> <<"a", "b">>
      [] name = "universe" -> <<"u", "n", "i", "v", "e", "r", "s", "e">>
      [] OTHER -> <<>>

SegLists == {<<>>, <<"a">>, <<"ab">>, <<"a", "a">>, <<"a", "ab">>,
             <<"ab", "a">>, <<"ab", "ab">>}

\* "/a/ab": the canonical spelling of a list of segment names
Abs(s) == IF s = <<>> THEN <<"", "">> ELSE <<"">> \o s

AbsPaths == {Abs(s) : s \in SegLists}

\* "", "a", "/a/", "/a/ab/", "/a//ab"
OtherPaths == {<<"">>, <<"a">>, <<"", "a", "">>,
               <<"", "a", "ab", "">>, <<"", "a", "", "ab">>}

\* destinations of move: "/", "/a", "/ab", "/ab/a", "/a/ab"
MoveTargets == {Abs(s) : s \in {<<>>, <<"a">>, <<"ab">>, <<"ab", "a">>, <<"a", "ab">>}}

Paths == AbsPaths \cup OtherPaths

\* the paths the whole interface is driven over: "/", "/a", "/ab", "/a/ab",
\* "/ab/a" to insert
ApiInsertPaths == {Abs(s) : s \in {<<>>, <<"a">>, <<"ab">>, <<"a", "ab">>, <<"ab", "a">>}}

\* "/", "/a", "/ab" to move from
ApiMoveSources == {Abs(s) : s \in {<<>>, <<"a">>, <<"ab">>}}

\* "/a", "/ab", "/ab/a" to move to
ApiMoveTargets == {Abs(s) : s \in {<<"a">>, <<"ab">>, <<"ab", "a">>}}

\* "/", "/a", "/ab", "/a/ab", "/a/" to remove
ApiRemovePaths ==
    {Abs(s) : s \in {<<>>, <<"a">>, <<"ab">>, <<"a", "ab">>}} \cup {<<"", "a", "">>}

\* "", "/", "/a", "/a/ab", "/ab/a" to look up
ApiGetNodePaths == {<<"">>} \cup {Abs(s) : s \in {<<>>, <<"a">>, <<"a", "ab">>, <<"ab", "a">>}}

Refs == 1..(2 * MaxNodes + 4)

(***************************************************************************)
(* Layer registry (LayerIndex): layers is the sequence of the names of the *)
(* layers created so far; the i-th layer created has identifier            *)
(* LayerIds[i].  The root layer is not held by the registry.               *)
(***************************************************************************)
LayerIds == <<"L1", "L2", "L3">>

rootLayer == [id |-> "/", name |-> "universe"]

\* the layer of that name, or null (id "")
getLayerByName(ls, name) ==
    IF \E i \in 1..Len(ls) : ls[i] = name
    THEN LET i == CHOOSE j \in 1..Len(ls) : ls[j] = name
         IN [id |-> LayerIds[i], name |-> name]
    ELSE [id |-> "", name |-> ""]

getLayerByID(ls, id) ==
    IF \E i \in 1..Len(ls) : LayerIds[i] = id
    THEN LET i == CHOOSE j \in 1..Len(ls) : LayerIds[j] = id
         IN [id |-> id, name |-> ls[i]]
    ELSE [id |-> "", name |-> ""]

createLayer(ls, name) == Append(ls, name)

\* renameLayer(name, newName): the layer keeps its identifier and takes the
\* new name
renameLayer(ls, name, newName) ==
    IF getLayerByName(ls, name).id = "" THEN ls
    ELSE [ls EXCEPT ![CHOOSE j \in 1..Len(ls) : ls[j] = name] = newName]

(***************************************************************************)
(* TreeNode                                                                *)
(***************************************************************************)
NoNode == [id |-> "", children |-> <<>>]

\* the reference a new object gets: one no live object has
NewRef(h) == CHOOSE r \in Refs : h[r].id = "" /\ \A q \in Refs : h[q].id = "" => r <= q

\* new TreeNode(id, payload): the heap with the node at NewRef(h)
TreeNode(h, id) == [h EXCEPT ![NewRef(h)] = [id |-> id, children |-> <<>>]]

hasChild(h, n, id) == \E i \in 1..Len(h[n].children) : h[n].children[i].key = id

\* children.get(id): the child's reference, 0 for undefined
getChild(h, n, id) ==
    IF hasChild(h, n, id)
    THEN h[n].children[CHOOSE i \in 1..Len(h[n].children) : h[n].children[i].key = id].node
    ELSE 0

hasChildren(h, n) == Len(h[n].children) > 0

addChildParentKey(h, n, c) ==
    IF hasChild(h, n, h[c].id) THEN h
    ELSE [h EXCEPT ![n].children = Append(@, [key |-> h[n].id, node |-> c])]

addChild(h, n, c) ==
    IF hasChild(h, n, h[c].id) THEN h
    ELSE [h EXCEPT ![n].children = Append(@, [key |-> h[c].id, node |-> c])]

removeChild(h, n, id) ==
    [h EXCEPT ![n].children = SelectSeq(@, LAMBDA e : e.key # id)]

ChildRefs(h, n) == [i \in 1..Len(h[n].children) |-> h[n].children[i].node]

(***************************************************************************)
(* Object identity: references are not observable, so after every          *)
(* operation the objects reachable from the root are renumbered in         *)
(* depth-first order and the unreachable ones are collected.               *)
(***************************************************************************)
RECURSIVE VisitOrder(_, _, _)
VisitOrder(h, stack, seen) ==
    IF stack = <<>> THEN seen
    ELSE LET r == Head(stack)
         IN IF \E i \in 1..Len(seen) : seen[i] = r
            THEN VisitOrder(h, Tail(stack), seen)
            ELSE VisitOrder(h, ChildRefs(h, r) \o Tail(stack), Append(seen, r))

Reachable(h, r) == LET o == VisitOrder(h, <<r>>, <<>>) IN {o[i] : i \in 1..Len(o)}

\* a node below r is among its own descendants
Cyclic(h, r) ==
    \E n \in Reachable(h, r) :
        \E i \in 1..Len(h[n].children) : n \in Reachable(h, h[n].children[i].node)

Collect(h, r) ==
    LET o == VisitOrder(h, <<r>>, <<>>)
        pos(q) == CHOOSE i \in 1..Len(o) : o[i] = q
    IN [q \in Refs |->
          IF q <= Len(o)
          THEN [id |-> h[o[q]].id,
                children |-> [i \in 1..Len(h[o[q]].children) |->
                                 [key |-> h[o[q]].children[i].key,
                                  node |-> pos(h[o[q]].children[i].node)]]]
          ELSE NoNode]

(***************************************************************************)
(* Compact JSON form and rebuild                                           *)
(***************************************************************************)
buildJsonIndexTreeShallow(h, n) ==
    [id |-> h[n].id,
     children |-> [i \in 1..Len(h[n].children) |->
                     [id |-> h[h[n].children[i].node].id, children |-> <<>>]]]

RECURSIVE buildJsonIndexTree(_, _)
buildJsonIndexTree(h, n) ==
    [id |-> h[n].id,
     children |-> [i \in 1..Len(h[n].children) |->
                     LET c == h[n].children[i].node
                     IN IF hasChildren(h, c) THEN buildJsonIndexTree(h, c)
                        ELSE [id |-> h[c].id, children |-> <<>>]]]

\* nodeData.name, "" when the JSON node has none
nameOf(nodeData) == IF "name" \in DOMAIN nodeData THEN nodeData.name ELSE ""

\* the names the nodes of a JSON tree carry
RECURSIVE JsonNames(_)
JsonNames(nodeData) ==
    (IF nameOf(nodeData) = "" THEN {} ELSE {nameOf(nodeData)})
        \cup UNION {JsonNames(nodeData.children[i]) : i \in 1..Len(nodeData.children)}

\* the number of nodes of a JSON tree
RECURSIVE JsonSize(_)
JsonSize(nodeData) ==
    IF nodeData.children = <<>> THEN 1
    ELSE 1 + JsonSize(Head(nodeData.children))
           + (JsonSize([nodeData EXCEPT !.children = Tail(@)]) - 1)

RECURSIVE buildTree(_, _, _)
RECURSIVE buildChildren(_, _, _, _)
\* [h |-> heap, layers |-> registry, node |-> reference of the node built for
\* nodeData, ok |-> FALSE when an id resolves to no layer and no name is given]
buildTree(h, ls, nodeData) ==
    LET name == nameOf(nodeData)
        found == IF nodeData.id = "/" \/ name = "/" THEN rootLayer
                 ELSE getLayerByID(ls, nodeData.id)
    IN IF found.id = "" /\ name = ""
       THEN [h |-> h, layers |-> ls, node |-> 0, ok |-> FALSE]
       ELSE LET ls2 == IF found.id = "" THEN createLayer(ls, name) ELSE ls
                layer == IF found.id = "" THEN [id |-> LayerIds[Len(ls2)], name |-> name]
                         ELSE found
                n == NewRef(h)
                k == buildChildren(TreeNode(h, layer.id), ls2, n, nodeData.children)
            IN [h |-> k.h, layers |-> k.layers, node |-> n, ok |-> k.ok]

buildChildren(h, ls, n, kids) ==
    IF kids = <<>> THEN [h |-> h, layers |-> ls, ok |-> TRUE]
    ELSE LET c == buildTree(h, ls, Head(kids))
         IN IF ~c.ok THEN [h |-> c.h, layers |-> c.layers, ok |-> FALSE]
            ELSE buildChildren(addChild(c.h, n, c.node), c.layers, n, Tail(kids))

\* #buildTreeFromJson(rootNode): rootNode is <<>> for a missing argument
buildTreeFromJson(h, ls, rootNode) ==
    IF rootNode = <<>>
    THEN [h |-> TreeNode(h, "/"), layers |-> ls, node |-> NewRef(h), ok |-> TRUE]
    ELSE buildTree(h, ls, rootNode[1])

(***************************************************************************)
(* Tree: a tree state T is [nodes, root, layers, index], index being the   *)
(* value under the 'tree' key of the index store (<<>> when absent).       *)
(***************************************************************************)
Filter(path) == SelectSeq(path, LAMBDA s : s # "")

\* path.split('/').slice(0, -1).join('/'), split again
ParentPath(path) == IF Len(path) <= 1 THEN <<"">> ELSE SubSeq(path, 1, Len(path) - 1)

RECURSIVE getNodeWalkLenient(_, _, _, _)
getNodeWalkLenient(h, ls, cur, names) ==
    IF names = <<>> THEN cur
    ELSE LET layer == getLayerByName(ls, Head(names))
         IN IF layer.id = "" THEN 0
            ELSE LET child == getChild(h, cur, layer.id)
                 IN getNodeWalkLenient(h, ls, IF child = 0 THEN cur ELSE child, Tail(names))

RECURSIVE getNodeWalk(_, _, _, _)
getNodeWalk(h, ls, cur, names) ==
    IF names = <<>> THEN cur
    ELSE LET layer == getLayerByName(ls, Head(names))
         IN IF layer.id = "" THEN 0
            ELSE LET child == getChild(h, cur, layer.id)
                 IN IF child = 0 THEN 0
                    ELSE getNodeWalk(h, ls, child, Tail(names))

\* the node's reference, 0 for false
getNode(T, path) ==
    IF path = <<"", "">> \/ path = <<"">> THEN T.root
    ELSE getNodeWalk(T.nodes, T.layers, T.root, Filter(path))

save(T) == [T EXCEPT !.index = <<buildJsonIndexTree(T.nodes, T.root)>>]

\* this.save() and then the result ret: over a cycle #buildJsonIndexTree
\* recurses until the call stack is exhausted, and nothing is stored
saveThen(T, ret) ==
    IF Cyclic(T.nodes, T.root) THEN [T |-> T, ret |-> "RangeError"]
    ELSE [T |-> save(T), ret |-> ret]

RECURSIVE insertLoopFlat(_, _, _, _, _)
insertLoopFlat(h, ls, cur, names, auto) ==
    IF names = <<>> THEN [h |-> h, layers |-> ls, cur |-> cur, ok |-> TRUE]
    ELSE LET found == getLayerByName(ls, Head(names))
         IN IF found.id = "" /\ ~auto
            THEN [h |-> h, layers |-> ls, cur |-> cur, ok |-> FALSE]
            ELSE LET ls2 == IF found.id = "" THEN createLayer(ls, Head(names)) ELSE ls
                     layer == getLayerByName(ls2, Head(names))
                     child == getChild(h, cur, layer.id)
                     h2 == IF child = 0
                           THEN addChild(TreeNode(h, getLayerByID(ls2, layer.id).id), cur, NewRef(h))
                           ELSE h
                 IN insertLoopFlat(h2, ls2, cur, Tail(names), auto)

RECURSIVE insertLoop(_, _, _, _, _)
\* the for loop of insert: [h, layers, cur, ok]
insertLoop(h, ls, cur, names, auto) ==
    IF names = <<>> THEN [h |-> h, layers |-> ls, cur |-> cur, ok |-> TRUE]
    ELSE LET found == getLayerByName(ls, Head(names))
         IN IF found.id = "" /\ ~auto
            THEN [h |-> h, layers |-> ls, cur |-> cur, ok |-> FALSE]
            ELSE LET ls2 == IF found.id = "" THEN createLayer(ls, Head(names)) ELSE ls
                     layer == getLayerByName(ls2, Head(names))
                     child == getChild(h, cur, layer.id)
                     h2 == IF child = 0
                           THEN addChild(TreeNode(h, getLayerByID(ls2, layer.id).id), cur, NewRef(h))
                           ELSE h
                     c2 == IF child = 0 THEN NewRef(h) ELSE child
                 IN insertLoop(h2, ls2, c2, Tail(names), auto)

\* lines 159-166: a supplied node is only ever re-added where it already is
insertNodeBranch(h, cur, node) ==
    IF node # 0 /\ getChild(h, cur, h[node].id) # 0
    THEN addChild(h, cur, getChild(h, cur, h[node].id))
    ELSE h

insertTail(T, r, node) ==
    saveThen([T EXCEPT !.nodes = insertNodeBranch(r.h, r.cur, node), !.layers = r.layers],
             "undefined")

\* insert(path, node, autoCreateLayers): [T |-> state after, ret |-> result]
insert(T, path, node, auto) ==
    IF path = <<"", "">> /\ node = 0 THEN [T |-> T, ret |-> "false"]
    ELSE LET r == insertLoop(T.nodes, T.layers, T.root, Filter(path), auto)
         IN IF ~r.ok
            THEN [T |-> [T EXCEPT !.nodes = r.h, !.layers = r.layers], ret |-> "false"]
            ELSE insertTail(T, r, node)

Truthy(ret) == ret = "true"

\* the characters of name occur consecutively in one segment of path
includes(path, name) ==
    \E i \in 1..Len(path) :
        LET t == Chars(path[i])
            s == Chars(name)
        IN \E k \in 0..(Len(t) - Len(s)) : SubSeq(t, k + 1, k + Len(s)) = s

\* for (const [key, value] of node.children.values()): a TreeNode is not iterable
PromoteThrows(h, node) == hasChildren(h, node)

\* a moveRecursive that tests the destination only after inserting into it
moveRecursiveLateCheck(T, pathFrom, pathTo) ==
    LET node == getNode(T, pathFrom)
    IN IF node = 0 THEN [T |-> T, ret |-> "TypeError"]
       ELSE LET name == IF T.nodes[node].id = "/" THEN rootLayer.name
                        ELSE getLayerByID(T.layers, T.nodes[node].id).name
                ins == insert(T, pathTo, node, TRUE)
            IN IF ins.ret = "RangeError" THEN ins
               ELSE IF includes(pathTo, name) THEN [T |-> ins.T, ret |-> "Error"]
               ELSE [T |-> ins.T, ret |-> "false"]

moveRecursive(T, pathFrom, pathTo) ==
    LET node == getNode(T, pathFrom)
        parentNode == getNode(T, ParentPath(pathFrom))
    IN IF node = 0 THEN [T |-> T, ret |-> "TypeError"]
       ELSE LET name == IF T.nodes[node].id = "/" THEN rootLayer.name
                        ELSE getLayerByID(T.layers, T.nodes[node].id).name
            IN IF includes(pathTo, name) THEN [T |-> T, ret |-> "Error"]
               ELSE LET ins == insert(T, pathTo, node, TRUE)
                    IN IF ins.ret = "RangeError" THEN ins
                       ELSE IF ~Truthy(ins.ret) THEN [T |-> ins.T, ret |-> "false"]
                       ELSE IF parentNode = 0 THEN [T |-> ins.T, ret |-> "TypeError"]
                       ELSE saveThen([ins.T EXCEPT !.nodes =
                                        removeChild(@, parentNode, T.nodes[node].id)],
                                     "undefined")

move(T, pathFrom, pathTo, recursive) ==
    IF recursive THEN moveRecursive(T, pathFrom, pathTo)
    ELSE LET node == getNode(T, pathFrom)
             parentNode == getNode(T, ParentPath(pathFrom))
         IN IF node = 0 THEN [T |-> T, ret |-> "false"]
            ELSE IF parentNode = 0 THEN [T |-> T, ret |-> "false"]
            ELSE LET h1 == TreeNode(T.nodes, T.nodes[node].id)
                     targetNode == NewRef(T.nodes)
                     ins == insert([T EXCEPT !.nodes = h1], pathTo, targetNode, TRUE)
                 IN IF ins.ret = "RangeError" THEN ins
                    ELSE IF ~Truthy(ins.ret) THEN [T |-> ins.T, ret |-> "false"]
                    ELSE LET T2 == [ins.T EXCEPT !.nodes =
                                       removeChild(@, parentNode, T.nodes[node].id)]
                         IN IF PromoteThrows(T2.nodes, node)
                            THEN [T |-> T2, ret |-> "TypeError"]
                            ELSE saveThen(T2, "undefined")

remove(T, path, recursive) ==
    LET node == getNode(T, path)
        parentNode == getNode(T, ParentPath(path))
    IN IF node = 0 THEN [T |-> T, ret |-> "false"]
       ELSE IF parentNode = 0 THEN [T |-> T, ret |-> "Error"]
       ELSE IF ~recursive /\ PromoteThrows(T.nodes, node) THEN [T |-> T, ret |-> "TypeError"]
       ELSE saveThen([T EXCEPT !.nodes = removeChild(@, parentNode, T.nodes[node].id)], "true")

\* removeNode(path, recursive): the statements of remove
removeNode(T, path, recursive) == remove(T, path, recursive)

\* insertNode(path, node): node 0 for a missing argument
insertNode(T, path, node) ==
    LET targetNode == getNode(T, path)
    IN IF targetNode = 0 THEN [T |-> T, ret |-> "false"]
       ELSE IF node = 0 THEN [T |-> T, ret |-> "false"]
       ELSE saveThen([T EXCEPT !.nodes = addChild(@, targetNode, node)], "true")

\* copy(pathFrom, pathTo, recursive) and copyRecursive(pathFrom, pathTo):
\* this.save() alone
copy(T) == saveThen(T, "undefined")

copyRecursive(T) == saveThen(T, "undefined")

\* a clear whose new root is not the root node '/'
clearUnbound(T) ==
    [T |-> save([T EXCEPT !.nodes = TreeNode(@, LayerIds[1]), !.root = NewRef(T.nodes)]),
     ret |-> "undefined"]

clear(T) ==
    saveThen([T EXCEPT !.nodes = TreeNode(@, "/"), !.root = NewRef(T.nodes)], "undefined")

\* a load that raises when the key is absent
loadStrict(T, json) ==
    IF json = <<>> THEN [T |-> T, ret |-> "Error"]
    ELSE LET b == buildTreeFromJson(T.nodes, T.layers, json)
         IN IF ~b.ok THEN [T |-> [T EXCEPT !.layers = b.layers], ret |-> "Error"]
            ELSE [T |-> [T EXCEPT !.nodes = b.h, !.layers = b.layers, !.root = b.node],
                  ret |-> "true"]

\* load(json): json is <<>> for a falsy value; load() hands the value under
\* 'tree'.  The layers created before a throw stay created.
load(T, json) ==
    IF json = <<>> THEN [T |-> T, ret |-> "false"]
    ELSE LET b == buildTreeFromJson(T.nodes, T.layers, json)
         IN IF ~b.ok THEN [T |-> [T EXCEPT !.layers = b.layers], ret |-> "Error"]
            ELSE [T |-> [T EXCEPT !.nodes = b.h, !.layers = b.layers, !.root = b.node],
                  ret |-> "true"]

\* fromJSON(json) { return this.load(json) }
fromJSON(T, json) == load(T, json)

\* loadJsonTree(json): the node built is returned and the tree left alone
loadJsonTree(T, json) ==
    LET b == buildTreeFromJson(T.nodes, T.layers, json)
    IN [T |-> [T EXCEPT !.layers = b.layers], ret |-> IF b.ok THEN "node" ELSE "Error"]

(***************************************************************************)
(* paths.  A path string is held as the sequence of the layer names it     *)
(* joins: "/a/ab" is <<"a", "ab">> and "" is <<>>.                         *)
(***************************************************************************)
\* the characters that occur in a path string, in UTF-16 code unit order
Alphabet == <<"/", "a", "b", "e", "i", "n", "r", "s", "u", "v">>

CodeUnit(c) == CHOOSE i \in 1..Len(Alphabet) : Alphabet[i] = c

\* the characters of the string '/' + n1 + '/' + n2 ...
RECURSIVE PathChars(_)
PathChars(p) == IF p = <<>> THEN <<>> ELSE <<"/">> \o Chars(Head(p)) \o PathChars(Tail(p))

\* x < y as the default comparison of Array.prototype.sort orders strings
RECURSIVE CharsLess(_, _)
CharsLess(x, y) ==
    IF y = <<>> THEN FALSE
    ELSE IF x = <<>> THEN TRUE
    ELSE IF Head(x) = Head(y) THEN CharsLess(Tail(x), Tail(y))
    ELSE CodeUnit(Head(x)) < CodeUnit(Head(y))

StringLess(p, q) == CharsLess(PathChars(p), PathChars(q))

\* ps with p placed before the first entry that is greater
RECURSIVE SortInsert(_, _)
SortInsert(ps, p) ==
    IF ps = <<>> THEN <<p>>
    ELSE IF StringLess(p, Head(ps)) THEN <<p>> \o ps
    ELSE <<Head(ps)>> \o SortInsert(Tail(ps), p)

RECURSIVE sortFrom(_, _)
sortFrom(done, rest) ==
    IF rest = <<>> THEN done ELSE sortFrom(SortInsert(done, Head(rest)), Tail(rest))

\* paths.sort()
sort(ps) == sortFrom(<<>>, ps)

RECURSIVE traverseTree(_, _, _, _)
RECURSIVE traverseChildren(_, _, _, _)
\* the paths pushed while traversing the node n reached under parentPath
traverseTree(h, ls, n, parentPath) ==
    LET name == IF h[n].id = "/" THEN rootLayer.name ELSE getLayerByID(ls, h[n].id).name
        path == IF name = "universe" THEN parentPath ELSE Append(parentPath, name)
    IN IF Len(h[n].children) > 0
       THEN traverseChildren(h, ls, ChildRefs(h, n), path)
       ELSE <<path>>

traverseChildren(h, ls, kids, path) ==
    IF kids = <<>> THEN <<>>
    ELSE traverseTree(h, ls, Head(kids), path) \o traverseChildren(h, ls, Tail(kids), path)

buildPathArray(T, sorted) ==
    LET found == traverseTree(T.nodes, T.layers, T.root, <<>>)
    IN IF sorted THEN sort(found) ELSE found

\* get paths()
paths(T) == buildPathArray(T, TRUE)

(***************************************************************************)
(* Tree specification                                                      *)
(***************************************************************************)
Cur == [nodes |-> nodes, root |-> root, layers |-> layers, index |-> treeIndex]

NodeCount(T) == Cardinality(Reachable(T.nodes, T.root))

NoPath == <<>>

Commit(r, op, path, pathTo, flag) ==
    /\ NodeCount(r.T) <= MaxNodes + 1
    /\ nodes' = Collect(r.T.nodes, r.T.root)
    /\ root' = 1
    /\ layers' = r.T.layers
    /\ treeIndex' = r.T.index
    /\ lastOp' = [op |-> op, path |-> path, pathTo |-> pathTo, flag |-> flag, ret |-> r.ret,
                  node |-> 0]
    /\ UNCHANGED indexVars
    /\ UNCHANGED bitmapVars

\* the node handed to insert and insertNode is the one getNode(q) returns,
\* none when q is NoPath
NodeArg(q) == IF q = NoPath THEN 0 ELSE getNode(Cur, q)

Insert(p, q, auto) == Commit(insert(Cur, p, NodeArg(q), auto), "insert", p, q, auto)

InsertNode(p, q) == Commit(insertNode(Cur, p, NodeArg(q)), "insertNode", p, q, FALSE)

Move(pf, pt, rec) == Commit(move(Cur, pf, pt, rec), "move", pf, pt, rec)

Remove(p, rec) == Commit(remove(Cur, p, rec), "remove", p, NoPath, rec)

RemoveNode(p, rec) == Commit(removeNode(Cur, p, rec), "removeNode", p, NoPath, rec)

Clear == Commit(clear(Cur), "clear", NoPath, NoPath, FALSE)

Save == Commit(saveThen(Cur, "true"), "save", NoPath, NoPath, FALSE)

Copy == Commit(copy(Cur), "copy", NoPath, NoPath, FALSE)

CopyRecursive == Commit(copyRecursive(Cur), "copyRecursive", NoPath, NoPath, FALSE)

\* load(): the stored tree is rebuilt
Load ==
    /\ treeIndex # <<>> => JsonSize(treeIndex[1]) <= MaxNodes + 1
    /\ Commit(load(Cur, treeIndex), "load", NoPath, NoPath, FALSE)

\* the names a JSON tree would have the registry create are not in use
Creatable(json) ==
    /\ \A name \in JsonNames(json) : getLayerByName(layers, name).id = ""
    /\ Len(layers) + Cardinality(JsonNames(json)) <= Len(LayerIds)

\* fromJSON(json), which is load(json)
FromJSON(json) ==
    /\ Creatable(json)
    /\ Commit(fromJSON(Cur, <<json>>), "fromJSON", NoPath, NoPath, FALSE)

LoadJsonTree(json) ==
    /\ Creatable(json)
    /\ Commit(loadJsonTree(Cur, <<json>>), "loadJsonTree", NoPath, NoPath, FALSE)

\* renameLayer(name, newName) for a layer that exists and a name not in use
RenameLayer(name, newName) ==
    /\ getLayerByName(layers, name).id # ""
    /\ getLayerByName(layers, newName).id = ""
    /\ Commit([T |-> [Cur EXCEPT !.layers = renameLayer(@, name, newName)], ret |-> "renamed"],
              "renameLayer", <<name>>, <<newName>>, FALSE)

\* getNode(path): the result is the node (its reference) or false
GetNode(p) ==
    LET n == getNode(Cur, p)
    IN /\ lastOp' = [op |-> "getNode", path |-> p, pathTo |-> NoPath, flag |-> FALSE,
                     ret |-> IF n = 0 THEN "false" ELSE "node", node |-> n]
       /\ UNCHANGED <<nodes, root, layers, treeIndex>>
       /\ UNCHANGED indexVars
       /\ UNCHANGED bitmapVars

EmptyHeap == [q \in Refs |-> NoNode]

IndexIdle ==
    /\ documents = {}
    /\ hash2oid = {}
    /\ bitmaps = <<>>
    /\ lastIx = <<>>
    /\ calls = <<>>

BitmapIdle ==
    /\ db = <<>>
    /\ cache = <<>>
    /\ lastBm = <<>>

\* new Tree(layerIndex, treeIndex) over an empty registry and an empty index store
TreeInit ==
    /\ nodes = TreeNode(EmptyHeap, "/")
    /\ root = 1
    /\ layers = <<>>
    /\ treeIndex = <<>>
    /\ lastOp = [op |-> "new", path |-> NoPath, pathTo |-> NoPath, flag |-> FALSE, ret |-> "false",
                 node |-> 0]
    /\ IndexIdle
    /\ BitmapIdle

\* the node handed to insert and insertNode is the one at "/a"
NodePaths == {Abs(<<"a">>)}

\* paths insertNode is aimed at: "/a", "/ab"
InsertNodeTargets == {Abs(<<"a">>), Abs(<<"ab">>)}

\* JSON trees a caller hands over: the root alone, a layer below itself, and a
\* node given by name under an identifier the registry does not hold
Jsons ==
    {[id |-> "/", children |-> <<>>],
     [id |-> "/", children |-> <<[id |-> "L1", children |-> <<[id |-> "L1", children |-> <<>>]>>]>>],
     [id |-> "/", children |-> <<[id |-> "X9", name |-> "ab", children |-> <<>>]>>]}

\* the operations on paths: insert, move, remove, clear, load and getNode
CoreNext ==
    \/ \E p \in Paths, auto \in BOOLEAN : Insert(p, NoPath, auto)
    \/ \E q \in NodePaths, auto \in BOOLEAN : Insert(Abs(<<>>), q, auto)
    \/ \E pf \in Paths, pt \in MoveTargets, rec \in BOOLEAN : Move(pf, pt, rec)
    \/ \E p \in Paths, rec \in BOOLEAN : Remove(p, rec)
    \/ Clear
    \/ Load
    \/ \E p \in Paths : GetNode(p)

CoreSpec == TreeInit /\ [][CoreNext]_vars

\* every public method of Tree that changes the tree, the registry or the
\* stored tree, and getNode
TreeNext ==
    \/ \E p \in ApiInsertPaths, auto \in BOOLEAN : Insert(p, NoPath, auto)
    \/ \E q \in NodePaths, auto \in BOOLEAN : Insert(Abs(<<>>), q, auto)
    \/ \E p \in InsertNodeTargets, q \in NodePaths \cup {NoPath} : InsertNode(p, q)
    \/ \E pf \in ApiMoveSources, pt \in ApiMoveTargets, rec \in BOOLEAN : Move(pf, pt, rec)
    \/ \E p \in ApiRemovePaths, rec \in BOOLEAN : Remove(p, rec)
    \/ \E p \in ApiRemovePaths, rec \in BOOLEAN : RemoveNode(p, rec)
    \/ Clear
    \/ Save
    \/ Copy
    \/ CopyRecursive
    \/ Load
    \/ \E json \in Jsons : FromJSON(json)
    \/ \E json \in Jsons : LoadJsonTree(json)
    \/ \E name \in Names, newName \in Names : RenameLayer(name, newName)
    \/ \E p \in ApiGetNodePaths : GetNode(p)

TreeSpec == TreeInit /\ [][TreeNext]_vars

\* paths whose segments include a layer that shares the root layer's name:
\* "/a", "/ab", "/universe", "/a/ab", "/a/universe", "/universe/a"
UniversePaths == {Abs(s) : s \in {<<"a">>, <<"ab">>, <<"universe">>, <<"a", "ab">>,
                                  <<"a", "universe">>, <<"universe", "a">>}}

\* the tree driven over layer names that include 'universe'
PathsNext ==
    \/ \E p \in UniversePaths, auto \in BOOLEAN : Insert(p, NoPath, auto)
    \/ \E p \in UniversePaths, rec \in BOOLEAN : Remove(p, rec)
    \/ Clear
    \/ Load

PathsSpec == TreeInit /\ [][PathsNext]_vars

(***************************************************************************)
(* BitmapManager.  A dataset or a Map is a function from keys to values; a  *)
(* key or an element handed to the manager is a tagged JavaScript value, a  *)
(* string or a number.  A manager is [db, cache, cacheIsMap]: IndexD passes *)
(* a string where the constructor expects the cache Map.                    *)
(***************************************************************************)
Str(s) == [t |-> "string", s |-> s, n |-> 0]

Num(n) == [t |-> "number", s |-> "", n |-> n]

\* this.#cache.has(key), this.#db.has(key), #loadBitmapFromDb(key)
getBitmap(mgr, key) ==
    IF ~mgr.cacheIsMap THEN [ret |-> "TypeError", elems |-> {}]
    ELSE IF key \in DOMAIN mgr.cache THEN [ret |-> "bitmap", elems |-> mgr.cache[key]]
    ELSE IF key \notin DOMAIN mgr.db THEN [ret |-> "null", elems |-> {}]
    ELSE [ret |-> "bitmap", elems |-> mgr.db[key]]

\* this.#db.set(key, bitmap.serialize(true))
saveBitmapToDb(mgr, key, elems) ==
    [mgr EXCEPT !.db = [k \in DOMAIN mgr.db \cup {key} |->
                           IF k = key THEN elems ELSE mgr.db[k]]]

\* the set getBitmap returned is mutated in place: a cached object changes
\* with it, an object deserialized for the call is the caller's alone
mutated(mgr, key, elems) ==
    IF mgr.cacheIsMap /\ key \in DOMAIN mgr.cache
    THEN [mgr EXCEPT !.cache = [k \in DOMAIN mgr.cache |->
                                   IF k = key THEN elems ELSE mgr.cache[k]]]
    ELSE mgr

\* a tick that adds an identifier the set does not hold yet
tickNext(mgr, idOrArray, bitmapKey) ==
    LET g == getBitmap(mgr, bitmapKey)
        fresh == IF idOrArray.n \in g.elems THEN idOrArray.n + 1 ELSE idOrArray.n
    IN IF g.ret = "TypeError" THEN [mgr |-> mgr, ret |-> "TypeError", elems |-> {}]
       ELSE IF g.ret = "null" THEN [mgr |-> mgr, ret |-> "false", elems |-> {}]
       ELSE IF idOrArray.t # "number" THEN [mgr |-> mgr, ret |-> "TypeError", elems |-> {}]
       ELSE [mgr |-> saveBitmapToDb(mutated(mgr, bitmapKey, g.elems \cup {fresh}),
                                    bitmapKey, g.elems \cup {fresh}),
             ret |-> "bitmap", elems |-> g.elems \cup {fresh}]

\* tick(idOrArray, bitmapKey): [mgr, ret, elems], elems the set returned
tick(mgr, idOrArray, bitmapKey) ==
    LET g == getBitmap(mgr, bitmapKey)
    IN IF g.ret = "TypeError" THEN [mgr |-> mgr, ret |-> "TypeError", elems |-> {}]
       ELSE IF g.ret = "null" THEN [mgr |-> mgr, ret |-> "false", elems |-> {}]
       ELSE IF idOrArray.t # "number" THEN [mgr |-> mgr, ret |-> "TypeError", elems |-> {}]
       ELSE [mgr |-> saveBitmapToDb(mutated(mgr, bitmapKey, g.elems \cup {idOrArray.n}),
                                    bitmapKey, g.elems \cup {idOrArray.n}),
             ret |-> "bitmap", elems |-> g.elems \cup {idOrArray.n}]

\* untick(idOrArray, bitmapKey).  RoaringBitmap32.remove(value) is declared
\* without a result, so that #saveBitmapToDb is handed undefined and throws;
\* removeReturnsSet is the build in which remove returns the set
untick(mgr, idOrArray, bitmapKey, removeReturnsSet) ==
    LET g == getBitmap(mgr, bitmapKey)
    IN IF g.ret = "TypeError" THEN [mgr |-> mgr, ret |-> "TypeError", elems |-> {}]
       ELSE IF g.ret = "null" THEN [mgr |-> mgr, ret |-> "false", elems |-> {}]
       ELSE IF idOrArray.t # "number" THEN [mgr |-> mgr, ret |-> "TypeError", elems |-> {}]
       ELSE IF ~removeReturnsSet
       THEN [mgr |-> mutated(mgr, bitmapKey, g.elems \ {idOrArray.n}),
             ret |-> "TypeError", elems |-> {}]
       ELSE [mgr |-> saveBitmapToDb(mutated(mgr, bitmapKey, g.elems \ {idOrArray.n}),
                                    bitmapKey, g.elems \ {idOrArray.n}),
             ret |-> "bitmap", elems |-> g.elems \ {idOrArray.n}]

hasBitmap(mgr, key) == key \in DOMAIN mgr.db

\* a seed is null, a RoaringBitmap32 or an array, with the integers it holds
NoSeed == [t |-> "null", elems |-> {}]

\* Bitmap.create(oidArrayOrBitmap, options): a compressed set of the seed's integers
Bitmap_create(seed) == seed.elems

\* a createBitmap that does not look for the key first
createBitmapOverwrite(mgr, key, seed) ==
    IF seed.t \notin {"null", "bitmap", "array"}
    THEN [mgr |-> mgr, ret |-> "false", elems |-> {}]
    ELSE [mgr |-> saveBitmapToDb(mgr, key, Bitmap_create(seed)),
          ret |-> "Error", elems |-> {}]

\* createBitmap(key, oidArrayOrBitmap): #saveBitmapToDb returns undefined, so
\* that the call throws once the set is stored
createBitmap(mgr, key, seed) ==
    IF hasBitmap(mgr, key) THEN [mgr |-> mgr, ret |-> "false", elems |-> {}]
    ELSE IF seed.t \notin {"null", "bitmap", "array"}
    THEN [mgr |-> mgr, ret |-> "false", elems |-> {}]
    ELSE [mgr |-> saveBitmapToDb(mgr, key, Bitmap_create(seed)),
          ret |-> "Error", elems |-> {}]

\* removeBitmap(key): this.#cache.delete(key), this.#db.delete(key)
removeBitmap(mgr, key) ==
    IF key \notin DOMAIN mgr.db THEN [mgr |-> mgr, ret |-> "false", elems |-> {}]
    ELSE IF ~mgr.cacheIsMap THEN [mgr |-> mgr, ret |-> "TypeError", elems |-> {}]
    ELSE [mgr |-> [mgr EXCEPT !.db = [k \in DOMAIN mgr.db \ {key} |-> mgr.db[k]],
                              !.cache = [k \in DOMAIN mgr.cache \ {key} |-> mgr.cache[k]]],
          ret |-> "true", elems |-> {}]

\* clearActiveBitmaps(): this.#cache.clear()
clearActiveBitmaps(mgr) ==
    IF ~mgr.cacheIsMap THEN [mgr |-> mgr, ret |-> "TypeError", elems |-> {}]
    ELSE [mgr |-> [mgr EXCEPT !.cache = <<>>], ret |-> "undefined", elems |-> {}]

\* tickSync(key, oidArrayOrBitmap, autoCreateBitmap, implicitSave)
tickSync(mgr, key, oids, autoCreateBitmap, implicitSave) ==
    LET g == getBitmap(mgr, key)
    IN IF g.ret = "TypeError" THEN [mgr |-> mgr, ret |-> "TypeError", elems |-> {}]
       ELSE IF g.ret = "null" /\ ~autoCreateBitmap
       THEN [mgr |-> mgr, ret |-> "false", elems |-> {}]
       ELSE LET m1 == mutated(mgr, key, g.elems \cup oids)
            IN [mgr |-> IF implicitSave THEN saveBitmapToDb(m1, key, g.elems \cup oids) ELSE m1,
                ret |-> "bitmap", elems |-> g.elems \cup oids]

\* untickSync(key, oidArrayOrBitmap, implicitSave)
untickSync(mgr, key, oids, implicitSave) ==
    LET g == getBitmap(mgr, key)
    IN IF g.ret = "TypeError" THEN [mgr |-> mgr, ret |-> "TypeError", elems |-> {}]
       ELSE IF g.ret = "null" THEN [mgr |-> mgr, ret |-> "false", elems |-> {}]
       ELSE LET m1 == mutated(mgr, key, g.elems \ oids)
            IN [mgr |-> IF implicitSave THEN saveBitmapToDb(m1, key, g.elems \ oids) ELSE m1,
                ret |-> "bitmap", elems |-> g.elems \ oids]

RECURSIVE tickManySyncMap(_, _, _, _, _)
\* keyArray.map(key => this.tickSync(key, oidArrayOrBitmap, ...))
tickManySyncMap(mgr, keyArray, oids, autoCreateBitmaps, implicitSave) ==
    IF keyArray = <<>> THEN [mgr |-> mgr, ret |-> "array", elems |-> {}]
    ELSE LET r == tickSync(mgr, Str(Head(keyArray)), oids, autoCreateBitmaps, implicitSave)
         IN IF r.ret = "TypeError" THEN r
            ELSE tickManySyncMap(r.mgr, Tail(keyArray), oids, autoCreateBitmaps, implicitSave)

\* tickManySync(keyArray, oidArrayOrBitmap, autoCreateBitmaps, implicitSave)
tickManySync(mgr, keyArray, oids, autoCreateBitmaps, implicitSave) ==
    IF keyArray = <<>> THEN [mgr |-> mgr, ret |-> "TypeError", elems |-> {}]
    ELSE tickManySyncMap(mgr, keyArray, oids, autoCreateBitmaps, implicitSave)

RECURSIVE tickManyMap(_, _, _)
\* keyArray.map(key => this.tick(key, oidArrayOrBitmap, ...)): the key is passed
\* as tick's first parameter and the identifier as its second
tickManyMap(mgr, keyArray, oid) ==
    IF keyArray = <<>> THEN [mgr |-> mgr, ret |-> "resolved"]
    ELSE LET r == tick(mgr, Str(Head(keyArray)), Num(oid))
         IN IF r.ret = "TypeError" THEN [mgr |-> r.mgr, ret |-> "TypeError"]
            ELSE tickManyMap(r.mgr, Tail(keyArray), oid)

\* tickMany(keyArray, oidArrayOrBitmap): [mgr, ret], ret "TypeError" for a
\* rejected promise
tickMany(mgr, keyArray, oid) ==
    IF keyArray = <<>> THEN [mgr |-> mgr, ret |-> "TypeError"]
    ELSE tickManyMap(mgr, keyArray, oid)

\* removeBitmapSync(key): this.#db.delete(key) alone
removeBitmapSync(mgr, key) ==
    IF key \notin DOMAIN mgr.db THEN [mgr |-> mgr, ret |-> "false", elems |-> {}]
    ELSE [mgr |-> [mgr EXCEPT !.db = [k \in DOMAIN mgr.db \ {key} |-> mgr.db[k]]],
          ret |-> "true", elems |-> {}]

\* renameBitmap(key, newKey): createBitmap returns false or throws
renameBitmap(mgr, key, newKey) ==
    LET g == getBitmap(mgr, key)
    IN IF g.ret = "TypeError" THEN [mgr |-> mgr, ret |-> "TypeError", elems |-> {}]
       ELSE IF g.ret = "null" THEN [mgr |-> mgr, ret |-> "false", elems |-> {}]
       ELSE LET c == createBitmap(mgr, newKey, [t |-> "bitmap", elems |-> g.elems])
            IN IF c.ret \in {"Error", "TypeError"} THEN c
               ELSE IF c.ret = "false" THEN [mgr |-> c.mgr, ret |-> "Error", elems |-> {}]
               ELSE LET d == removeBitmap(c.mgr, key)
                    IN IF d.ret = "TypeError" THEN d
                       ELSE IF d.ret = "false" THEN [mgr |-> d.mgr, ret |-> "Error", elems |-> {}]
                       ELSE [mgr |-> d.mgr, ret |-> "true", elems |-> {}]

\* renameBitmapSync(key, newKey): BitmapManager has no createBitmapSync, so
\* this.createBitmapSync(newKey, bitmap) throws a TypeError
renameBitmapSync(mgr, key, newKey) ==
    LET g == getBitmap(mgr, key)
    IN IF g.ret = "TypeError" THEN [mgr |-> mgr, ret |-> "TypeError", elems |-> {}]
       ELSE IF g.ret = "null" THEN [mgr |-> mgr, ret |-> "false", elems |-> {}]
       ELSE [mgr |-> mgr, ret |-> "TypeError", elems |-> {}]

\* r with one more getBitmap call in front of the calls it already lists
Called(key, r) == [r EXCEPT !.calls = <<key>> \o @]

RECURSIVE ANDLoopThrough(_, _, _, _, _)
\* a loop that keeps resolving the remaining keys after a missing or empty one
ANDLoopThrough(mgr, keyArray, hasPartial, partial, firstKey) ==
    IF keyArray = <<>>
    THEN [mgr |-> mgr, ret |-> "bitmap", elems |-> partial, calls |-> <<>>]
    ELSE LET g == getBitmap(mgr, Str(Head(keyArray)))
         IN IF g.ret = "TypeError"
            THEN [mgr |-> mgr, ret |-> "TypeError", elems |-> {}, calls |-> <<Head(keyArray)>>]
            ELSE IF g.ret = "null" \/ g.elems = {}
            THEN Called(Head(keyArray),
                        [ANDLoopThrough(mgr, Tail(keyArray), TRUE, {}, firstKey)
                           EXCEPT !.elems = {}])
            ELSE IF ~hasPartial
            THEN Called(Head(keyArray),
                        ANDLoopThrough(mgr, Tail(keyArray), TRUE, g.elems, Str(Head(keyArray))))
            ELSE Called(Head(keyArray),
                        ANDLoopThrough(mutated(mgr, firstKey, partial \cap g.elems),
                                       Tail(keyArray), TRUE, partial \cap g.elems, firstKey))

RECURSIVE ANDLoop(_, _, _, _, _)
\* the loop of AND: partial is the first set getBitmap returned, firstKey its
\* key; partial.andInPlace(bitmap) changes that object; calls lists the keys
\* getBitmap was called with, in order
ANDLoop(mgr, keyArray, hasPartial, partial, firstKey) ==
    IF keyArray = <<>>
    THEN [mgr |-> mgr, ret |-> "bitmap", elems |-> partial, calls |-> <<>>]
    ELSE LET g == getBitmap(mgr, Str(Head(keyArray)))
         IN IF g.ret = "TypeError"
            THEN [mgr |-> mgr, ret |-> "TypeError", elems |-> {}, calls |-> <<Head(keyArray)>>]
            ELSE IF g.ret = "null" \/ g.elems = {}
            THEN [mgr |-> mgr, ret |-> "bitmap", elems |-> {}, calls |-> <<Head(keyArray)>>]
            ELSE IF ~hasPartial
            THEN Called(Head(keyArray),
                        ANDLoop(mgr, Tail(keyArray), TRUE, g.elems, Str(Head(keyArray))))
            ELSE Called(Head(keyArray),
                        ANDLoop(mutated(mgr, firstKey, partial \cap g.elems), Tail(keyArray),
                                TRUE, partial \cap g.elems, firstKey))

\* an AND that returns the first set without intersecting the others
ANDFirstOnly(mgr, keyArray) ==
    IF keyArray = <<>> THEN [mgr |-> mgr, ret |-> "bitmap", elems |-> {}, calls |-> <<>>]
    ELSE ANDLoop(mgr, <<Head(keyArray)>>, FALSE, {}, Str(""))

\* AND(keyArray)
AND(mgr, keyArray) ==
    IF keyArray = <<>> THEN [mgr |-> mgr, ret |-> "bitmap", elems |-> {}, calls |-> <<>>]
    ELSE ANDLoop(mgr, keyArray, FALSE, {}, Str(""))

RECURSIVE validBitmaps(_, _)
\* keyArray.map(key => this.getBitmap(key)).filter(Boolean): the sets, in order
validBitmaps(mgr, keyArray) ==
    IF keyArray = <<>> THEN <<>>
    ELSE LET g == getBitmap(mgr, Str(Head(keyArray)))
         IN (IF g.ret = "bitmap" THEN <<g.elems>> ELSE <<>>) \o validBitmaps(mgr, Tail(keyArray))

RECURSIVE orMany(_)
\* RoaringBitmap32.orMany(bitmaps): a new set, the union
orMany(sets) == IF sets = <<>> THEN {} ELSE Head(sets) \cup orMany(Tail(sets))

\* an OR that gives up at the first key getBitmap does not find
ORUntilMissing(mgr, keyArray) ==
    IF keyArray # <<>> /\ ~mgr.cacheIsMap THEN [mgr |-> mgr, ret |-> "TypeError", elems |-> {}]
    ELSE LET n == CHOOSE i \in 0..Len(keyArray) :
                     /\ \A j \in 1..i : getBitmap(mgr, Str(keyArray[j])).ret = "bitmap"
                     /\ i < Len(keyArray) => getBitmap(mgr, Str(keyArray[i + 1])).ret # "bitmap"
         IN [mgr |-> mgr, ret |-> "bitmap",
             elems |-> orMany(validBitmaps(mgr, SubSeq(keyArray, 1, n)))]

\* OR(keyArray)
OR(mgr, keyArray) ==
    IF keyArray # <<>> /\ ~mgr.cacheIsMap THEN [mgr |-> mgr, ret |-> "TypeError", elems |-> {}]
    ELSE [mgr |-> mgr, ret |-> "bitmap", elems |-> orMany(validBitmaps(mgr, keyArray))]

RECURSIVE Static_ANDLoop(_, _)
\* the loop of the static AND over the sets from the i-th on: partial is the
\* first supplied set itself, and partial.andInPlace(bitmap) changes it
Static_ANDLoop(sets, i) ==
    IF i > Len(sets) THEN [sets |-> sets, ret |-> "bitmap", elems |-> sets[1]]
    ELSE IF sets[i] = {} THEN [sets |-> sets, ret |-> "bitmap", elems |-> {}]
    ELSE IF i = 1 THEN Static_ANDLoop(sets, i + 1)
    ELSE Static_ANDLoop([sets EXCEPT ![1] = @ \cap sets[i]], i + 1)

\* static AND(roaringBitmapArray): the supplied sets as the call leaves them
\* and the set returned
Static_AND(roaringBitmapArray) ==
    IF roaringBitmapArray = <<>> THEN [sets |-> <<>>, ret |-> "bitmap", elems |-> {}]
    ELSE Static_ANDLoop(roaringBitmapArray, 1)

(***************************************************************************)
(* IndexD: an index state S is [documents, hash2oid, bitmaps]; documents    *)
(* is the set of stored records (one per id), hash2oid the set of           *)
(* [hash, id] entries, bitmaps the dataset the four managers share.         *)
(***************************************************************************)
Hashes == {"h1", "h2"}

ContextArrays == {<<>>, <<"c1">>, <<"c1", "c2">>}

FeatureArrays == {<<>>, <<"f1">>}

\* new BitmapManager(this.bitmaps, 'contexts', {...}): the cache is a string
bmContexts(S) == [db |-> S.bitmaps, cache |-> <<>>, cacheIsMap |-> FALSE]

bmFeatures(S) == [db |-> S.bitmaps, cache |-> <<>>, cacheIsMap |-> FALSE]

\* this.db.getKeysCount(): the keys the database holds
getKeysCount(S) ==
    Cardinality(S.documents) + Cardinality(S.hash2oid) + Cardinality(DOMAIN S.bitmaps)

genDocumentID(S) == getKeysCount(S) + 1000

\* new Document(doc): the record with its id and content hash
validateDocument(S, doc) ==
    [id |-> IF doc.id = 0 THEN genDocumentID(S) ELSE doc.id,
     hash |-> doc.hash, data |-> doc.data]

put(table, rec) == {d \in table : d.id # rec.id} \cup {rec}

hashGet(S, hash) ==
    IF \E e \in S.hash2oid : e.hash = hash
    THEN (CHOOSE e \in S.hash2oid : e.hash = hash).id
    ELSE 0

hashPut(table, hash, id) == {e \in table : e.hash # hash} \cup {[hash |-> hash, id |-> id]}

\* parsed.hashes.sha1: the key insertDocument reads and writes in hash2oid
hashKey(parsed) == parsed.hash

\* `${hashType}/${hash}` for the hash types and hashes in use
join(hashType, hash) ==
    CASE hashType = "sha1" /\ hash = "h1" -> "sha1/h1"
      [] hashType = "sha1" /\ hash = "h2" -> "sha1/h2"
      [] OTHER -> "/"

\* let fullHash = hashType ? `${hashType}/${hash}` : hash
fullHash(hash, hashType) == IF hashType # "" THEN join(hashType, hash) ELSE hash

\* getDocumentByHash(hash, hashType): null, or what documents.get(id) gives
getDocumentByHash(S, hash, hashType) ==
    LET id == hashGet(S, fullHash(hash, hashType))
    IN IF id = 0 THEN [ret |-> "null", docs |-> {}]
       ELSE IF \E d \in S.documents : d.id = id
       THEN [ret |-> "document", docs |-> {d \in S.documents : d.id = id}]
       ELSE [ret |-> "undefined", docs |-> {}]

updateDocument(S, parsed, contextArray, featureArray) == [S |-> S, ret |-> "true", oid |-> parsed.id]

\* the three writes, with the hash entry recorded before they are awaited
issueWritesEagerHash(S, parsed, contextArray, featureArray) ==
    LET S1 == [S EXCEPT !.documents = put(@, parsed),
                        !.hash2oid = hashPut(@, hashKey(parsed), parsed.id)]
        c == tickMany(bmContexts(S1), contextArray, parsed.id)
        S2 == [S1 EXCEPT !.bitmaps = c.mgr.db]
        f == tickMany(bmFeatures(S2), featureArray, parsed.id)
        S3 == [S2 EXCEPT !.bitmaps = f.mgr.db]
    IN [S |-> S3, rejected |-> c.ret = "TypeError" \/ f.ret = "TypeError"]

\* Promise.all([documents.put(...), bmContexts.tickMany(...),
\* bmFeatures.tickMany(...)]): the three calls are made one after the other
\* before the promise is awaited; rejected when a tickMany promise is
issueWrites(S, parsed, contextArray, featureArray) ==
    LET S1 == [S EXCEPT !.documents = put(@, parsed)]
        c == tickMany(bmContexts(S1), contextArray, parsed.id)
        S2 == [S1 EXCEPT !.bitmaps = c.mgr.db]
        f == tickMany(bmFeatures(S2), featureArray, parsed.id)
        S3 == [S2 EXCEPT !.bitmaps = f.mgr.db]
    IN [S |-> S3, rejected |-> c.ret = "TypeError" \/ f.ret = "TypeError"]

\* listDocuments(contextArray, featureArray): [undefined, docs]
listDocuments(S, contextArray, featureArray) ==
    IF contextArray = <<>> /\ featureArray = <<>>
    THEN [undefined |-> FALSE, docs |-> S.documents]
    ELSE [undefined |-> TRUE, docs |-> {}]

(***************************************************************************)
(* Document index specification                                            *)
(***************************************************************************)
CurIx == [documents |-> documents, hash2oid |-> hash2oid, bitmaps |-> bitmaps]

NoDoc == [id |-> 0, hash |-> "", data |-> ""]

TreeIdle ==
    /\ nodes = <<>>
    /\ root = 0
    /\ layers = <<>>
    /\ treeIndex = <<>>
    /\ lastOp = <<>>

IndexInit ==
    /\ documents = {}
    /\ hash2oid = {}
    /\ bitmaps = <<>>
    /\ lastIx = [op |-> "new", doc |-> NoDoc, contextArray |-> <<>>, featureArray |-> <<>>,
                 seen |-> FALSE, ret |-> "", oid |-> 0, undefined |-> FALSE, docs |-> {},
                 key |-> "", hashType |-> ""]
    /\ calls = <<>>
    /\ TreeIdle
    /\ BitmapIdle

\* insertDocument calls started
MaxCalls == 2

\* what lastIx holds once the call c has settled with ret
Settled(c, ret) ==
    [op |-> "insertDocument", doc |-> c.doc, contextArray |-> c.contextArray,
     featureArray |-> c.featureArray, seen |-> c.res # 0, ret |-> ret, oid |-> c.parsed.id,
     undefined |-> FALSE, docs |-> {}, key |-> hashKey(c.parsed), hashType |-> ""]

\* insertDocument is an async function.  The call validates the document,
\* which assigns the identifier, looks the hash up and suspends at
\* `await this.hash2oid.get(...)`; other calls may start before it resumes.
\* calls is the log of the calls started, in order; pc is the await a call is
\* suspended at ("get", "all", "put") or "settled".
InsertDocumentCalled(doc, contextArray, featureArray) ==
    LET parsed == validateDocument(CurIx, doc)
    IN /\ Len(calls) < MaxCalls
       /\ calls' = Append(calls, [doc |-> doc, parsed |-> parsed,
                                  contextArray |-> contextArray, featureArray |-> featureArray,
                                  res |-> hashGet(CurIx, hashKey(parsed)),
                                  pc |-> "get", rejected |-> FALSE, ret |-> "",
                                  concurrent |-> {k \in 1..Len(calls) : calls[k].pc # "settled"}])
       /\ UNCHANGED <<documents, hash2oid, bitmaps, lastIx>>
       /\ UNCHANGED treeVars
       /\ UNCHANGED bitmapVars

\* the i-th call resumes after the hash lookup: it returns what updateDocument
\* gives, or issues the three writes and suspends at `await updateBitmapsAndDocs`
InsertDocumentResumed(i) ==
    LET c == calls[i]
        u == updateDocument(CurIx, c.parsed, c.contextArray, c.featureArray)
        w == issueWrites(CurIx, c.parsed, c.contextArray, c.featureArray)
    IN /\ c.pc = "get"
       /\ IF c.res # 0
          THEN /\ calls' = [calls EXCEPT ![i].pc = "settled", ![i].ret = u.ret]
               /\ lastIx' = Settled(c, u.ret)
               /\ UNCHANGED <<documents, hash2oid, bitmaps>>
          ELSE /\ documents' = w.S.documents
               /\ hash2oid' = w.S.hash2oid
               /\ bitmaps' = w.S.bitmaps
               /\ calls' = [calls EXCEPT ![i].pc = "all", ![i].rejected = w.rejected]
               /\ UNCHANGED lastIx
       /\ UNCHANGED treeVars
       /\ UNCHANGED bitmapVars

\* the i-th call resumes after `await updateBitmapsAndDocs`: the rejection is
\* thrown on to the caller, or the hash entry is written and the call suspends
\* at `await this.hash2oid.put(...)`, after which it returns parsed
InsertDocumentSettled(i) ==
    LET c == calls[i]
    IN /\ c.pc \in {"all", "put"}
       /\ IF c.pc = "all" /\ ~c.rejected
          THEN /\ hash2oid' = hashPut(hash2oid, hashKey(c.parsed), c.parsed.id)
               /\ calls' = [calls EXCEPT ![i].pc = "put"]
               /\ UNCHANGED lastIx
          ELSE /\ calls' = [calls EXCEPT ![i].pc = "settled",
                                         ![i].ret = IF c.pc = "all" THEN "TypeError" ELSE "parsed"]
               /\ lastIx' = Settled(c, IF c.pc = "all" THEN "TypeError" ELSE "parsed")
               /\ UNCHANGED hash2oid
       /\ UNCHANGED <<documents, bitmaps>>
       /\ UNCHANGED treeVars
       /\ UNCHANGED bitmapVars

ListDocuments(contextArray, featureArray) ==
    LET r == listDocuments(CurIx, contextArray, featureArray)
    IN /\ lastIx' = [op |-> "listDocuments", doc |-> NoDoc, contextArray |-> contextArray,
                     featureArray |-> featureArray, seen |-> FALSE,
                     ret |-> "", oid |-> 0, undefined |-> r.undefined, docs |-> r.docs,
                     key |-> "", hashType |-> ""]
       /\ UNCHANGED <<documents, hash2oid, bitmaps, calls>>
       /\ UNCHANGED treeVars
       /\ UNCHANGED bitmapVars

\* hash types handed to getDocumentByHash: none, or 'sha1'
HashTypes == {"", "sha1"}

GetDocumentByHash(hash, hashType) ==
    LET r == getDocumentByHash(CurIx, hash, hashType)
    IN /\ lastIx' = [op |-> "getDocumentByHash", doc |-> [id |-> 0, hash |-> hash, data |-> ""],
                     contextArray |-> <<>>, featureArray |-> <<>>, seen |-> FALSE,
                     ret |-> r.ret, oid |-> 0, undefined |-> FALSE, docs |-> r.docs,
                     key |-> fullHash(hash, hashType), hashType |-> hashType]
       /\ UNCHANGED <<documents, hash2oid, bitmaps, calls>>
       /\ UNCHANGED treeVars
       /\ UNCHANGED bitmapVars

\* the documents handed to insertDocument: without an id under either hash,
\* with the caller's id, and one hash with other data
Docs ==
    {[id |-> 0, hash |-> h, data |-> "d1"] : h \in Hashes}
        \cup {[id |-> 1001, hash |-> "h1", data |-> "d1"], [id |-> 0, hash |-> "h1", data |-> "d2"]}

\* the context and feature lists handed to insertDocument: the defaults, or
\* contexts and features
InsertLists == {<<<<>>, <<>>>>, <<<<"c1", "c2">>, <<"f1">>>>}

IndexNext ==
    \/ \E doc \in Docs, l \in InsertLists : InsertDocumentCalled(doc, l[1], l[2])
    \/ \E i \in 1..Len(calls) : InsertDocumentResumed(i)
    \/ \E i \in 1..Len(calls) : InsertDocumentSettled(i)
    \/ \E c \in ContextArrays, f \in FeatureArrays : ListDocuments(c, f)
    \/ \E h \in Hashes, hashType \in HashTypes : GetDocumentByHash(h, hashType)

IndexSpec == IndexInit /\ [][IndexNext]_vars

(***************************************************************************)
(* Compressed set store specification: one BitmapManager built over two    *)
(* Maps, db and cache: new ones (the constructor's defaults), or the       *)
(* caller's, holding a set under k1 that the cache holds too.              *)
(***************************************************************************)
\* largest document identifier ticked
MaxId == 2

Ids == 1..MaxId

BmKeys == {"k1", "k2"}

KeyArrays == {<<>>, <<"k1">>, <<"k2">>, <<"k1", "k2">>, <<"k2", "k1">>}

\* no seed, an array of identifiers, or a compressed set of all of them
Seeds == {NoSeed} \cup {[t |-> "array", elems |-> e] : e \in SUBSET Ids}
                  \cup {[t |-> "bitmap", elems |-> Ids]}

CurMgr == [db |-> db, cache |-> cache, cacheIsMap |-> TRUE]

NoKey == Str("")

BmCommit(r, op, key, keys, ids, seed, autoCreate, implicitSave) ==
    /\ db' = r.mgr.db
    /\ cache' = r.mgr.cache
    /\ lastBm' = [op |-> op, key |-> key, keys |-> keys, ids |-> ids, seed |-> seed,
                  auto |-> autoCreate, save |-> implicitSave, ret |-> r.ret, elems |-> r.elems]
    /\ UNCHANGED treeVars
    /\ UNCHANGED indexVars

CreateBitmap(k, seed) ==
    BmCommit(createBitmap(CurMgr, Str(k), seed), "createBitmap", Str(k), <<>>, seed.elems,
             seed.t, FALSE, TRUE)

RemoveBitmap(k) ==
    BmCommit(removeBitmap(CurMgr, Str(k)), "removeBitmap", Str(k), <<>>, {}, "", FALSE, TRUE)

GetBitmap(k) ==
    LET g == getBitmap(CurMgr, Str(k))
    IN BmCommit([mgr |-> CurMgr, ret |-> g.ret, elems |-> g.elems], "getBitmap", Str(k),
                <<>>, {}, "", FALSE, FALSE)

Tick(id, k) ==
    BmCommit(tick(CurMgr, Num(id), Str(k)), "tick", Str(k), <<>>, {id}, "", TRUE, TRUE)

Untick(id, k, removeReturnsSet) ==
    BmCommit(untick(CurMgr, Num(id), Str(k), removeReturnsSet), "untick", Str(k), <<>>, {id},
             "", FALSE, TRUE)

TickSync(k, oids, autoCreate, implicitSave) ==
    BmCommit(tickSync(CurMgr, Str(k), oids, autoCreate, implicitSave), "tickSync", Str(k), <<>>, oids,
             "", autoCreate, implicitSave)

UntickSync(k, oids, implicitSave) ==
    BmCommit(untickSync(CurMgr, Str(k), oids, implicitSave), "untickSync", Str(k), <<>>, oids,
             "", FALSE, implicitSave)

TickMany(keyArray, id) ==
    LET r == tickMany(CurMgr, keyArray, id)
    IN BmCommit([mgr |-> r.mgr, ret |-> r.ret, elems |-> {}], "tickMany", NoKey, keyArray,
                {id}, "", TRUE, TRUE)

TickManySync(keyArray, oids, autoCreate, implicitSave) ==
    BmCommit(tickManySync(CurMgr, keyArray, oids, autoCreate, implicitSave), "tickManySync", NoKey,
             keyArray, oids, "", autoCreate, implicitSave)

\* new BitmapManager(db, cache)
Preloaded ==
    {[db |-> <<>>, cache |-> <<>>],
     [db |-> [k \in {Str("k1")} |-> {1}], cache |-> [k \in {Str("k1")} |-> {1}]]}

BitmapInit ==
    /\ \E pre \in Preloaded : db = pre.db /\ cache = pre.cache
    /\ lastBm = [op |-> "new", key |-> NoKey, keys |-> <<>>, ids |-> {}, seed |-> "",
                 auto |-> FALSE, save |-> FALSE, ret |-> "", elems |-> {}]
    /\ TreeIdle
    /\ IndexIdle

ClearActiveBitmaps ==
    BmCommit(clearActiveBitmaps(CurMgr), "clearActiveBitmaps", NoKey, <<>>, {}, "", FALSE, FALSE)

RemoveBitmapSync(k) ==
    BmCommit(removeBitmapSync(CurMgr, Str(k)), "removeBitmapSync", Str(k), <<>>, {}, "",
             FALSE, TRUE)

RenameBitmap(k, newKey) ==
    BmCommit(renameBitmap(CurMgr, Str(k), Str(newKey)), "renameBitmap", Str(k), <<newKey>>,
             {}, "", FALSE, TRUE)

RenameBitmapSync(k, newKey) ==
    BmCommit(renameBitmapSync(CurMgr, Str(k), Str(newKey)), "renameBitmapSync", Str(k),
             <<newKey>>, {}, "", FALSE, TRUE)

And(keyArray) ==
    BmCommit(AND(CurMgr, keyArray), "AND", NoKey, keyArray, {}, "", FALSE, FALSE)

Or(keyArray) ==
    BmCommit(OR(CurMgr, keyArray), "OR", NoKey, keyArray, {}, "", FALSE, FALSE)

\* arrays of sets handed to the static AND
SetArrays == {<<>>, <<Ids>>, <<Ids, {1}>>, <<{1}, Ids>>}

\* BitmapManager.AND(roaringBitmapArray): keys records the sets supplied
StaticAnd(roaringBitmapArray) ==
    LET r == Static_AND(roaringBitmapArray)
    IN BmCommit([mgr |-> CurMgr, ret |-> r.ret, elems |-> r.elems], "staticAND", NoKey,
                roaringBitmapArray, {}, "", FALSE, FALSE)

BitmapNext ==
    \/ \E k \in BmKeys, seed \in Seeds : CreateBitmap(k, seed)
    \/ \E k \in BmKeys : RemoveBitmap(k)
    \/ \E k \in BmKeys : GetBitmap(k)
    \/ \E id \in Ids, k \in BmKeys : Tick(id, k)
    \/ \E id \in Ids, k \in BmKeys, removeReturnsSet \in BOOLEAN : Untick(id, k, removeReturnsSet)
    \/ \E k \in BmKeys, oids \in SUBSET Ids, autoCreate \in BOOLEAN, implicitSave \in BOOLEAN :
          TickSync(k, oids, autoCreate, implicitSave)
    \/ \E k \in BmKeys, oids \in SUBSET Ids, implicitSave \in BOOLEAN : UntickSync(k, oids, implicitSave)
    \/ \E keyArray \in KeyArrays, id \in Ids : TickMany(keyArray, id)
    \/ \E keyArray \in KeyArrays, oids \in SUBSET Ids : TickManySync(keyArray, oids, TRUE, TRUE)
    \/ \E k \in BmKeys : RemoveBitmapSync(k)
    \/ ClearActiveBitmaps
    \/ \E k \in BmKeys, newKey \in BmKeys : RenameBitmap(k, newKey)
    \/ \E k \in BmKeys, newKey \in BmKeys : RenameBitmapSync(k, newKey)
    \/ \E keyArray \in KeyArrays : And(keyArray)
    \/ \E keyArray \in KeyArrays : Or(keyArray)
    \/ \E roaringBitmapArray \in SetArrays : StaticAnd(roaringBitmapArray)

BitmapSpec == BitmapInit /\ [][BitmapNext]_vars

(***************************************************************************)
(* Properties of the context tree                                          *)
(***************************************************************************)
Nxt == [nodes |-> nodes', root |-> root', layers |-> layers', index |-> treeIndex']

nodeName(ls, id) == IF id = "/" THEN rootLayer.name ELSE getLayerByID(ls, id).name

\* the paths (ancestor layer names from the root, the root being the empty
\* prefix) under which the object target is reached from n
RECURSIVE DerivedPaths(_, _, _, _, _)
DerivedPaths(h, ls, n, prefix, target) ==
    (IF n = target THEN {prefix} ELSE {})
    \cup UNION {DerivedPaths(h, ls, h[n].children[i].node,
                             Append(prefix, nodeName(ls, h[h[n].children[i].node].id)),
                             target) : i \in 1..Len(h[n].children)}

\* the same identifiers and the same parent/child relation under n1 and n2
RECURSIVE SameHierarchy(_, _, _, _)
SameHierarchy(h1, n1, h2, n2) ==
    /\ h1[n1].id = h2[n2].id
    /\ Len(h1[n1].children) = Len(h2[n2].children)
    /\ \A i \in 1..Len(h1[n1].children) :
          /\ h1[n1].children[i].key = h2[n2].children[i].key
          /\ SameHierarchy(h1, h1[n1].children[i].node, h2, h2[n2].children[i].node)

RECURSIVE Depth(_, _)
Depth(h, n) ==
    IF h[n].children = <<>> THEN 0
    ELSE 1 + (CHOOSE d \in 0..Cardinality(Refs) :
                /\ \E i \in 1..Len(h[n].children) : Depth(h, h[n].children[i].node) = d
                /\ \A i \in 1..Len(h[n].children) : Depth(h, h[n].children[i].node) <= d)

\* C1: after insert(p) with autoCreateLayers = true, for a path p with at least
\* one non-empty segment, getNode(p) returns a node (not false) and the path
\* derived for that node from its ancestors' layer names is p.
C1_InsertThenGetNode ==
    (lastOp.op = "insert" /\ lastOp.flag /\ Filter(lastOp.path) # <<>>) =>
        LET n == getNode(Cur, lastOp.path)
        IN /\ n # 0
           /\ DerivedPaths(nodes, layers, root, <<"">>, n) = {<<"">> \o Filter(lastOp.path)}

C1_Witness ==
    /\ lastOp.op = "insert" /\ lastOp.flag /\ lastOp.path = <<"", "a", "ab">>
    /\ lastOp.ret = "undefined"
    /\ getNode(Cur, <<"", "a", "ab">>) # 0
    /\ NodeCount(Cur) = 4

\* C2: serializing the tree to the compact form and rebuilding a tree from it
\* gives the same node identifiers in the same parent/child relation.
C2_CompactRoundTrip ==
    LET json == buildJsonIndexTree(nodes, root)
        b == buildTreeFromJson(nodes, layers, <<json>>)
    IN /\ b.ok
       /\ b.node # root
       /\ SameHierarchy(nodes, root, b.h, b.node)

\* a tree two levels deep that load() has just rebuilt from the saved form
C2_Witness ==
    /\ lastOp.op = "load" /\ lastOp.ret = "true"
    /\ Depth(nodes, root) = 2
    /\ NodeCount(Cur) = 4

\* C10: in every state reachable by insert, move, remove, clear and load,
\* every key of every node's child map is the identifier of the child
\* stored under it, the keys of one map are distinct, and no TreeNode is a
\* child of two parents (or twice of one).
C10_KeysAndSingleParent ==
    LET live == Reachable(nodes, root)
    IN /\ \A n \in live : \A i \in 1..Len(nodes[n].children) :
              /\ nodes[n].children[i].key = nodes[nodes[n].children[i].node].id
              /\ \A j \in 1..Len(nodes[n].children) :
                    (nodes[n].children[i].key = nodes[n].children[j].key
                     \/ nodes[n].children[i].node = nodes[n].children[j].node) => i = j
       /\ \A n1, n2 \in live : \A i \in 1..Len(nodes[n1].children) :
              \A j \in 1..Len(nodes[n2].children) :
                  nodes[n1].children[i].node = nodes[n2].children[j].node => n1 = n2

\* after move('/a', '/ab/a'), layer a is bound to two distinct nodes, each the
\* child of one parent
C10_Witness ==
    /\ lastOp.op = "move" /\ ~lastOp.flag
    /\ lastOp.path = <<"", "a">> /\ lastOp.pathTo = <<"", "ab", "a">>
    /\ getNode(Cur, <<"", "a">>) # 0
    /\ getNode(Cur, <<"", "ab", "a">>) # 0
    /\ getNode(Cur, <<"", "a">>) # getNode(Cur, <<"", "ab", "a">>)
    /\ nodes[getNode(Cur, <<"", "a">>)].id = nodes[getNode(Cur, <<"", "ab", "a">>)].id

\* C6: move(pathFrom, pathTo, recursive = false) of an existing non-root node to
\* a different path ending in the node's layer name leaves getNode(pathFrom)
\* not found and getNode(pathTo) bound to the moved node's layer.
C6_MoveDetachesSource ==
    [][(/\ lastOp'.op = "move" /\ ~lastOp'.flag
        /\ lastOp'.path \in AbsPaths
        /\ getNode(Cur, lastOp'.path) # 0
        /\ getNode(Cur, lastOp'.path) # root
        /\ Filter(lastOp'.path) # Filter(lastOp'.pathTo)
        /\ Filter(lastOp'.pathTo) # <<>>
        /\ Filter(lastOp'.path)[Len(Filter(lastOp'.path))]
             = Filter(lastOp'.pathTo)[Len(Filter(lastOp'.pathTo))])
       => (/\ getNode(Nxt, lastOp'.path) = 0
           /\ getNode(Nxt, lastOp'.pathTo) # 0
           /\ nodes'[getNode(Nxt, lastOp'.pathTo)].id = nodes[getNode(Cur, lastOp'.path)].id)]_vars

ChildKeys(h, n) == {h[n].children[i].key : i \in 1..Len(h[n].children)}

\* the compact form of the child of n stored under key
SubTree(h, n, key) == buildJsonIndexTree(h, getChild(h, n, key))

\* C7: remove(path, recursive = false) of an existing non-root node with children
\* returns true, every former child is then a child of the node's parent with
\* its sub-tree intact, and the node is no longer found at path.
C7_RemovePromotesChildren ==
    [][(/\ lastOp'.op = "remove" /\ ~lastOp'.flag
        /\ lastOp'.path \in AbsPaths
        /\ getNode(Cur, lastOp'.path) # 0
        /\ getNode(Cur, lastOp'.path) # root
        /\ hasChildren(nodes, getNode(Cur, lastOp'.path)))
       => LET n == getNode(Cur, lastOp'.path)
              par == getNode(Nxt, ParentPath(lastOp'.path))
          IN /\ lastOp'.ret = "true"
             /\ par # 0
             /\ \A k \in ChildKeys(nodes, n) :
                   /\ k \in ChildKeys(nodes', par)
                   /\ SubTree(nodes', par, k) = SubTree(nodes, n, k)]_vars

\* C8: remove(path, recursive = true) of an existing non-root node returns true,
\* the node is no longer found at path, and the parent keeps exactly its other
\* children (nothing is promoted).
C8_RemoveRecursiveDetaches ==
    [][(/\ lastOp'.op = "remove" /\ lastOp'.flag
        /\ getNode(Cur, lastOp'.path) # 0
        /\ getNode(Cur, lastOp'.path) # root)
       => LET n == getNode(Cur, lastOp'.path)
              segs == Filter(lastOp'.path)
              par == getNode(Cur, Abs(SubSeq(segs, 1, Len(segs) - 1)))
              par2 == getNode(Nxt, Abs(SubSeq(segs, 1, Len(segs) - 1)))
          IN /\ lastOp'.ret = "true"
             /\ getNode(Nxt, lastOp'.path) = 0
             /\ par2 # 0
             /\ ChildKeys(nodes', par2) = ChildKeys(nodes, par) \ {nodes[n].id}
             /\ \A k \in ChildKeys(nodes', par2) :
                   SubTree(nodes', par2, k) = SubTree(nodes, par, k)]_vars

\* C9: move(pathFrom, pathTo, recursive = true) of an existing non-root node whose
\* layer name does not occur in pathTo attaches the node with its sub-tree under
\* the node at pathTo and detaches it from its original parent.
C9_MoveRecursiveTransplants ==
    [][(/\ lastOp'.op = "move" /\ lastOp'.flag
        /\ lastOp'.path \in AbsPaths
        /\ getNode(Cur, lastOp'.path) # 0
        /\ getNode(Cur, lastOp'.path) # root
        /\ ~includes(lastOp'.pathTo, nodeName(layers, nodes[getNode(Cur, lastOp'.path)].id))
        /\ Filter(lastOp'.pathTo) # Filter(ParentPath(lastOp'.path)))
       => LET n == getNode(Cur, lastOp'.path)
              par == getNode(Cur, ParentPath(lastOp'.path))
              dest == getNode(Nxt, lastOp'.pathTo)
          IN /\ dest # 0
             /\ nodes[n].id \in ChildKeys(nodes', dest)
             /\ SubTree(nodes', dest, nodes[n].id) = SubTree(nodes, par, nodes[n].id)
             /\ getNode(Nxt, lastOp'.path) = 0]_vars

\* a segment of path names a layer the registry does not hold
MissingLayer(ls, path) ==
    \E i \in 1..Len(Filter(path)) : getLayerByName(ls, Filter(path)[i]).id = ""

Falsy(ret) == ret \in {"false", "undefined", "null"}

\* C11: insert(path, node, autoCreateLayers = false), when a segment of path
\* names a layer the registry does not hold, returns a falsy result and leaves
\* the tree, the registry and the persisted tree as they were: no TreeNode is
\* created for an earlier segment and no layer is created.
C11_InsertWithoutAutoCreateIsAtomic ==
    [][(/\ lastOp'.op = "insert" /\ ~lastOp'.flag
        /\ MissingLayer(layers, lastOp'.path))
       => (/\ Falsy(lastOp'.ret)
           /\ nodes' = nodes
           /\ layers' = layers
           /\ treeIndex' = treeIndex)]_vars

\* the nodes reached from the root by following, segment after segment, the
\* child whose layer bears the segment's name
RECURSIVE Below(_, _, _, _)
Below(h, ls, from, names) ==
    IF names = <<>> THEN from
    ELSE Below(h, ls,
               {c \in UNION {{h[n].children[i].node : i \in 1..Len(h[n].children)} : n \in from} :
                   nodeName(ls, h[c].id) = Head(names)},
               Tail(names))

NodesAt(h, r, ls, path) == Below(h, ls, {r}, Filter(path))

\* C12: getNode(path) changes neither the tree, nor the registry, nor the
\* persisted tree; it returns the root for '' and '/', the node at path when
\* every segment resolves to a layer whose node is a child of the previous
\* one, and false otherwise, without raising.
C12_GetNodeReadOnly ==
    [][lastOp'.op = "getNode"
       => (/\ nodes' = nodes /\ root' = root /\ layers' = layers /\ treeIndex' = treeIndex
           /\ lastOp'.path \in {<<"">>, <<"", "">>} => lastOp'.node = root
           /\ IF NodesAt(nodes, root, layers, lastOp'.path) # {}
              THEN /\ lastOp'.ret = "node"
                   /\ lastOp'.node \in NodesAt(nodes, root, layers, lastOp'.path)
              ELSE /\ lastOp'.ret = "false"
                   /\ lastOp'.node = 0)]_vars

\* getNode has found a node two levels down, and has missed on another call
C12_Witness ==
    /\ lastOp.op = "getNode"
    /\ lastOp.ret = "node"
    /\ Len(Filter(lastOp.path)) = 2
    /\ lastOp.node # root
    /\ getNode(Cur, <<"", "ab", "a">>) = 0
    /\ Len(layers) = 2

\* C13: move(pathFrom, pathTo, recursive), for either value of recursive, when
\* pathFrom does not resolve to a node, returns a falsy result, raises nothing
\* and leaves the tree unchanged.
C13_MoveMissingSourceFails ==
    [][(/\ lastOp'.op = "move"
        /\ getNode(Cur, lastOp'.path) = 0)
       => (/\ Falsy(lastOp'.ret)
           /\ nodes' = nodes
           /\ layers' = layers
           /\ treeIndex' = treeIndex)]_vars

\* C27: load() with no value under the tree key returns false without
\* raising and leaves the tree as it is; a Tree constructed over an empty
\* index store consists of the root node alone.
C27_LoadAbsentKeyKeepsRoot ==
    [][/\ (lastOp'.op = "load" /\ treeIndex = <<>>)
           => lastOp'.ret = "false" /\ Nxt = Cur
       /\ lastOp.op = "new"
           => /\ Reachable(nodes, root) = {root}
              /\ nodes[root] = [id |-> "/", children |-> <<>>]
              /\ treeIndex = <<>>]_vars

\* load() has returned false over a store without the tree key
C27_Witness ==
    /\ lastOp.op = "load"
    /\ lastOp.ret = "false"
    /\ treeIndex = <<>>
    /\ nodes[root].id = "/"

Leaves(h, r) == {n \in Reachable(h, r) : h[n].children = <<>>}

\* the ancestors' layer names from below the root down to n
RECURSIVE DerivedPath(_, _, _, _)
DerivedPath(h, ls, r, n) ==
    IF n = r THEN <<>>
    ELSE LET parent == CHOOSE q \in Reachable(h, r) :
                           \E i \in 1..Len(h[q].children) : h[q].children[i].node = n
         IN Append(DerivedPath(h, ls, r, parent), nodeName(ls, h[n].id))

PathsOfLeaves(T) ==
    LET ps == paths(T)
        lv == Leaves(T.nodes, T.root)
        derived == [n \in lv |-> DerivedPath(T.nodes, T.layers, T.root, n)]
    IN /\ Len(ps) = Cardinality(lv)
       /\ \A n \in lv : \E i \in 1..Len(ps) : ps[i] = derived[n]
       /\ \A i \in 1..Len(ps) :
             Cardinality({j \in 1..Len(ps) : ps[j] = ps[i]})
               = Cardinality({n \in lv : derived[n] = ps[i]})
       /\ \A i \in 1..Len(ps), j \in 1..Len(ps) : i < j => ~StringLess(ps[j], ps[i])

\* C28: paths holds exactly one entry per leaf, the leaf's derived path (the
\* names of the layers from below the root down to the leaf), in
\* lexicographic order; on a fresh tree insert('/a/ab') leaves exactly
\* ['/a/ab'].
C28_PathsAreLeafPaths ==
    /\ []PathsOfLeaves(Cur)
    /\ [][(/\ lastOp.op = "new"
           /\ lastOp'.op = "insert"
           /\ lastOp'.path = Abs(<<"a", "ab">>)
           /\ lastOp'.flag)
          => paths(Nxt) = << <<"a", "ab">> >>]_vars

\* C29: after any sequence of insert, move, remove, clear and load the tree
\* has exactly one root node: its identifier is '/', which binds it to the
\* root layer, and no other node of the tree has that identifier.
C29_OneRoot ==
    /\ root \in Refs
    /\ nodes[root].id = "/"
    /\ nodeName(layers, nodes[root].id) = rootLayer.name
    /\ \A n \in Reachable(nodes, root) : nodes[n].id = "/" => n = root

\* the root is still the one root after a remove or a move aimed at '/'
C29_Witness ==
    /\ \/ lastOp.op = "remove" /\ lastOp.path = Abs(<<>>)
       \/ lastOp.op = "move" /\ lastOp.path = Abs(<<>>)
    /\ Cardinality(Reachable(nodes, root)) > 1
    /\ nodes[root].id = "/"

\* C32: move(pathFrom, pathTo, true) of an existing node whose layer name
\* occurs textually in pathTo raises an error before any change: the tree,
\* the layer registry and the persisted tree are as they were.
C32_MoveIntoOwnNameFailsFast ==
    [][(/\ lastOp'.op = "move"
        /\ lastOp'.flag
        /\ getNode(Cur, lastOp'.path) # 0
        /\ includes(lastOp'.pathTo, nodeName(layers, nodes[getNode(Cur, lastOp'.path)].id)))
       => (/\ lastOp'.ret = "Error"
           /\ Nxt = Cur)]_vars

\* the recursive move of the existing /a to /ab has raised the error
C32_Witness ==
    /\ lastOp.op = "move"
    /\ lastOp.flag
    /\ lastOp.path = Abs(<<"a">>)
    /\ lastOp.pathTo = Abs(<<"ab">>)
    /\ lastOp.ret = "Error"
    /\ getNode(Cur, lastOp.path) # 0
    /\ getNode(Cur, lastOp.pathTo) = 0

\* C33: after an insert, move, remove or clear call has returned, with
\* success or with failure, the compact tree under the 'tree' key is the
\* compact serialization of the in-memory tree (while nothing has been
\* stored yet, the in-memory tree is the root alone).
C33_StoredTreeIsCurrent ==
    lastOp.op \in {"insert", "move", "remove", "clear"}
    => IF treeIndex = <<>>
       THEN nodes[root] = [id |-> "/", children |-> <<>>]
       ELSE treeIndex[1] = buildJsonIndexTree(nodes, root)

\* C36: whenever remove(path) returns true for a path that resolved to a
\* node other than the root, in whatever form the path is written (leading
\* or trailing slashes, empty segments), getNode(path) finds no node
\* afterwards: the node is no longer a child of its parent.
C36_RemoveTrueDetaches ==
    [][(/\ lastOp'.op = "remove"
        /\ lastOp'.ret = "true"
        /\ getNode(Cur, lastOp'.path) # 0
        /\ getNode(Cur, lastOp'.path) # root)
       => getNode(Nxt, lastOp'.path) = 0]_vars

(***************************************************************************)
(* Properties of the document index                                        *)
(***************************************************************************)
SeqRange(q) == {q[i] : i \in 1..Len(q)}

\* the union of the bitmaps stored under the keys of keyArray
OrOfKeys(store, keyArray) ==
    UNION {store[Str(k)] : k \in {x \in SeqRange(keyArray) : Str(x) \in DOMAIN store}}

\* C3: the document table never holds two documents with the same content hash.
C3_OneDocumentPerHash ==
    \A d1, d2 \in documents : d1.hash = d2.hash => d1.id = d2.id

\* C4: listDocuments with a non-empty filter list returns (never undefined) the
\* stored documents whose id is in the union of the named context bitmaps and
\* in the union of the named feature bitmaps.
C4_ListDocumentsFilters ==
    (lastIx.op = "listDocuments" /\ (lastIx.contextArray # <<>> \/ lastIx.featureArray # <<>>))
    => /\ ~lastIx.undefined
       /\ lastIx.docs = {d \in documents :
                            d.id \in OrOfKeys(bitmaps, lastIx.contextArray)
                                       \cap OrOfKeys(bitmaps, lastIx.featureArray)}

\* C5: once insertDocument has run for a not-yet-seen hash with named contexts
\* and features, the document is stored under its id, the id is in the bitmap
\* of every named context and feature, and the hash map maps the hash to it.
C5_InsertTicksBitmaps ==
    (/\ lastIx.op = "insertDocument" /\ ~lastIx.seen
     /\ lastIx.contextArray # <<>> /\ lastIx.featureArray # <<>>)
    => /\ \E d \in documents : d.id = lastIx.oid /\ d.hash = lastIx.doc.hash
       /\ \A k \in SeqRange(lastIx.contextArray) \cup SeqRange(lastIx.featureArray) :
             Str(k) \in DOMAIN bitmaps /\ lastIx.oid \in bitmaps[Str(k)]
       /\ [hash |-> lastIx.doc.hash, id |-> lastIx.oid] \in hash2oid

\* the call started in this step, when it is a call for a new hash that leaves
\* the identifier to the index and no other call is in flight
AssignsId(j) ==
    /\ Len(calls') = j /\ Len(calls) = j - 1
    /\ calls'[j].doc.id = 0 /\ calls'[j].res = 0 /\ calls'[j].concurrent = {}

\* C26: an identifier the index assigns to a document inserted without an id
\* is at least 1000, is larger than the ones assigned by the inserts before,
\* and is not the identifier of a document already in the document table.
C26_AssignedIdsFresh ==
    [][\A j \in 1..MaxCalls + 1 :
          AssignsId(j)
          => (/\ calls'[j].parsed.id >= 1000
              /\ \A i \in 1..(j - 1) :
                    (calls[i].doc.id = 0 /\ calls[i].res = 0)
                    => calls'[j].parsed.id > calls[i].parsed.id
              /\ \A d \in documents : d.id # calls'[j].parsed.id)]_vars

\* the hash entry of the call c
HashEntry(c) == [hash |-> hashKey(c.parsed), id |-> c.parsed.id]

\* C30: insertDocument for a not-yet-seen hash writes the hash-to-identifier
\* entry only when the document write and both tick groups have succeeded;
\* when one of them fails the error reaches the caller, the entry is not
\* written, and what the others wrote stays (the document, the bitmaps).
C30_HashWrittenLast ==
    /\ [](\A i \in 1..Len(calls) :
             calls[i].res = 0
             => /\ (calls[i].pc = "get" \/ calls[i].rejected) => HashEntry(calls[i]) \notin hash2oid
                /\ calls[i].pc = "settled"
                   => IF calls[i].rejected THEN calls[i].ret = "TypeError"
                      ELSE calls[i].ret = "parsed" /\ HashEntry(calls[i]) \in hash2oid)
    /\ [][\A i \in 1..Len(calls) :
             (calls[i].res = 0 /\ calls[i].pc = "get" /\ calls'[i].pc = "all")
             => /\ calls[i].parsed \in documents'
                /\ hash2oid' = hash2oid
                /\ \A k \in DOMAIN bitmaps : k \in DOMAIN bitmaps' /\ bitmaps'[k] = bitmaps[k]]_vars
    /\ [][\A i \in 1..Len(calls) :
             (calls[i].pc = "all" /\ calls[i].rejected /\ calls'[i].pc = "settled")
             => (documents' = documents /\ bitmaps' = bitmaps /\ hash2oid' = hash2oid)]_vars

\* a tick group has failed: the document is stored and no hash entry exists
C30_Witness ==
    /\ lastIx.op = "insertDocument"
    /\ lastIx.ret = "TypeError"
    /\ lastIx.contextArray # <<>>
    /\ \E d \in documents : d.id = lastIx.oid /\ d.hash = lastIx.doc.hash
    /\ \A e \in hash2oid : e.hash # lastIx.doc.hash

\* C37: after insertDocument has succeeded for a document whose sha1 hash is
\* H, getDocumentByHash(H, 'sha1') returns that document: the key under
\* which insertDocument looks up and records the hash entry is the key
\* getDocumentByHash composes for the hash type sha1.
C37_HashLookupFindsInserted ==
    /\ lastIx.op = "insertDocument"
       => lastIx.key = fullHash(lastIx.doc.hash, "sha1")
    /\ (lastIx.op = "insertDocument" /\ lastIx.ret \in {"parsed", "true"})
       => LET r == getDocumentByHash(CurIx, lastIx.doc.hash, "sha1")
          IN r.ret = "document" /\ \A d \in r.docs : d.hash = lastIx.doc.hash

\* C35: two insertDocument calls for documents with different hashes and no
\* caller-supplied id, the second started before the first has settled, are
\* assigned different identifiers, and when both have settled both
\* documents are in the document table under their identifiers.
C35_OverlappingInsertsGetDistinctIds ==
    \A i \in 1..Len(calls), j \in 1..Len(calls) :
        (/\ i \in calls[j].concurrent
         /\ calls[i].doc.id = 0 /\ calls[j].doc.id = 0
         /\ calls[i].doc.hash # calls[j].doc.hash)
        => (/\ calls[i].parsed.id # calls[j].parsed.id
            /\ (calls[i].pc = "settled" /\ calls[j].pc = "settled")
               => \A k \in {i, j} :
                     \E d \in documents : d.id = calls[k].parsed.id /\ d.hash = calls[k].doc.hash)

(***************************************************************************)
(* Properties of the compressed set store                                  *)
(***************************************************************************)
\* the key of the last call exists: the backing store holds it
Exists(key) == key \in DOMAIN db

\* C14: createBitmap(key, seed) for a key that does not exist, the seed being
\* absent, a compressed set or an array of integers, returns the created set
\* without raising; afterwards the key exists and getBitmap(key) yields
\* exactly the seed's integers (none when no seed was given).
C14_CreateBitmapReturnsSet ==
    [][(/\ lastBm'.op = "createBitmap"
        /\ lastBm'.key \notin DOMAIN db)
       => (/\ lastBm'.ret = "bitmap"
           /\ lastBm'.elems = lastBm'.ids
           /\ lastBm'.key \in DOMAIN db'
           /\ getBitmap([db |-> db', cache |-> cache', cacheIsMap |-> TRUE], lastBm'.key)
                 = [ret |-> "bitmap", elems |-> lastBm'.ids])]_vars

\* C15: createBitmap(key, seed) for a key that already exists returns false
\* and changes nothing: the sets persisted and cached are the ones held
\* before the call, whatever the seed.
C15_CreateExistingFails ==
    [][(/\ lastBm'.op = "createBitmap"
        /\ lastBm'.key \in DOMAIN db)
       => (/\ lastBm'.ret = "false"
           /\ db' = db
           /\ cache' = cache)]_vars

\* createBitmap has refused a key whose set differs from the seed offered
C15_Witness ==
    /\ lastBm.op = "createBitmap"
    /\ lastBm.ret = "false"
    /\ lastBm.seed = "array"
    /\ Exists(lastBm.key)
    /\ db[lastBm.key] # lastBm.ids
    /\ db[lastBm.key] # {}

\* C16: getBitmap(key) returns the cached set when the key is cached; when the
\* key is only in the backing store it returns the persisted set and
\* afterwards the key is cached; when the key was never created it returns
\* null and creates nothing.
C16_GetBitmapPopulatesCache ==
    [][lastBm'.op = "getBitmap"
       => (/\ lastBm'.key \in DOMAIN cache
              => lastBm'.ret = "bitmap" /\ lastBm'.elems = cache[lastBm'.key]
           /\ (lastBm'.key \notin DOMAIN cache /\ lastBm'.key \in DOMAIN db)
              => (/\ lastBm'.ret = "bitmap"
                  /\ lastBm'.elems = db[lastBm'.key]
                  /\ lastBm'.key \in DOMAIN cache')
           /\ (lastBm'.key \notin DOMAIN cache /\ lastBm'.key \notin DOMAIN db)
              => (/\ lastBm'.ret = "null"
                  /\ db' = db
                  /\ cache' = cache))]_vars

\* C17: tick and untick on a key that does not exist.  With auto-create
\* disabled (tickSync with autoCreateBitmap = false, untick, untickSync) the
\* call returns false and the key still does not exist; with auto-create
\* enabled (tick, tickSync by default) the key exists afterwards and holds
\* exactly the integers ticked.
C17_TickMissingKey ==
    [][(/\ lastBm'.op \in {"tick", "untick", "tickSync", "untickSync"}
        /\ lastBm'.key \notin DOMAIN db)
       => IF lastBm'.op \in {"tick", "tickSync"} /\ lastBm'.auto
          THEN /\ lastBm'.key \in DOMAIN db'
               /\ db'[lastBm'.key] = lastBm'.ids
          ELSE /\ lastBm'.ret = "false"
               /\ lastBm'.key \notin DOMAIN db']_vars

\* C18: a tick, untick, tickSync or untickSync call that returned a mutated
\* set for a key has persisted it: the set stored under the key has exactly
\* the elements of the set returned, and so has a cached set for the key.
C18_WriteThrough ==
    (/\ lastBm.op \in {"tick", "untick", "tickSync", "untickSync"}
     /\ lastBm.ret = "bitmap")
    => (/\ lastBm.key \in DOMAIN db
        /\ db[lastBm.key] = lastBm.elems
        /\ lastBm.key \in DOMAIN cache => cache[lastBm.key] = lastBm.elems)

\* C19: for an existing key k and an integer x, ticking x into k a second
\* time, by tick or by tickSync, leaves the set at k with the elements and
\* the cardinality the first tick left.
C19_TickIdempotent ==
    (/\ lastBm.op \in {"tick", "tickSync"}
     /\ lastBm.ret = "bitmap"
     /\ lastBm.save
     /\ Cardinality(lastBm.ids) = 1)
    => \A x \in lastBm.ids :
          LET again == tick(CurMgr, Num(x), lastBm.key)
              againSync == tickSync(CurMgr, lastBm.key, {x}, TRUE, TRUE)
          IN /\ again.ret = "bitmap"
             /\ again.mgr.db[lastBm.key] = db[lastBm.key]
             /\ Cardinality(again.elems) = Cardinality(db[lastBm.key])
             /\ againSync.ret = "bitmap"
             /\ againSync.mgr.db[lastBm.key] = db[lastBm.key]
             /\ Cardinality(againSync.elems) = Cardinality(db[lastBm.key])

\* tick has just added an integer to a set that held another one
C19_Witness ==
    /\ lastBm.op = "tick"
    /\ lastBm.ret = "bitmap"
    /\ lastBm.ids \subseteq db[lastBm.key]
    /\ Cardinality(db[lastBm.key]) = 2

\* C20: tickMany(keys, ids) with a non-empty key list and auto-create enabled
\* ticks ids into each key: once it resolves every key of keys exists and its
\* set holds every integer of ids, and no other key is changed.
C20_TickManyTicksEveryKey ==
    [][(/\ lastBm'.op = "tickMany"
        /\ lastBm'.keys # <<>>)
       => (/\ lastBm'.ret = "resolved"
           /\ \A i \in 1..Len(lastBm'.keys) :
                 /\ Str(lastBm'.keys[i]) \in DOMAIN db'
                 /\ lastBm'.ids \subseteq db'[Str(lastBm'.keys[i])]
           /\ \A k \in (DOMAIN db \cup DOMAIN db') \ {Str(lastBm'.keys[i]) : i \in 1..Len(lastBm'.keys)} :
                 k \in DOMAIN db /\ k \in DOMAIN db' /\ db'[k] = db[k])]_vars

NxtMgr == [db |-> db', cache |-> cache', cacheIsMap |-> TRUE]

\* the set getBitmap resolves the key to, before the call
Resolved(k) == getBitmap(CurMgr, Str(k))

\* C21: when every key of a non-empty list names an existing non-empty set,
\* AND(keys) returns exactly the intersection of those sets, the sets being
\* the ones getBitmap resolves the keys to (for a single key, that set).
C21_AndIsIntersection ==
    [][(/\ lastBm'.op = "AND"
        /\ lastBm'.keys # <<>>
        /\ \A i \in 1..Len(lastBm'.keys) :
              /\ Resolved(lastBm'.keys[i]).ret = "bitmap"
              /\ Resolved(lastBm'.keys[i]).elems # {})
       => (/\ lastBm'.ret = "bitmap"
           /\ lastBm'.elems = {x \in Resolved(lastBm'.keys[1]).elems :
                                  \A i \in 1..Len(lastBm'.keys) :
                                     x \in Resolved(lastBm'.keys[i]).elems})]_vars

\* AND over two keys has returned a proper, non-empty part of the first set
C21_Witness ==
    /\ lastBm.op = "AND"
    /\ lastBm.keys = <<"k1", "k2">>
    /\ lastBm.elems # {}
    /\ Str("k1") \in DOMAIN db /\ Str("k2") \in DOMAIN db
    /\ lastBm.elems = db[Str("k1")] \cap db[Str("k2")]
    /\ lastBm.elems # db[Str("k1")]

\* C22: OR([]) and OR over keys that all resolve to nothing return the empty
\* set; OR over any key list returns exactly the union of the sets of the
\* keys that resolve, and every permutation of the list gives the same set.
C22_OrIsUnion ==
    [][lastBm'.op = "OR"
       => (/\ lastBm'.ret = "bitmap"
           /\ lastBm'.elems = UNION {Resolved(lastBm'.keys[i]).elems :
                                       i \in {j \in 1..Len(lastBm'.keys) :
                                                 Resolved(lastBm'.keys[j]).ret = "bitmap"}}
           /\ \A keyArray \in KeyArrays :
                 (/\ Len(keyArray) = Len(lastBm'.keys)
                  /\ SeqRange(keyArray) = SeqRange(lastBm'.keys))
                 => OR(CurMgr, keyArray).elems = lastBm'.elems)]_vars

\* OR over a missing key followed by an existing one has returned its set
C22_Witness ==
    /\ lastBm.op = "OR"
    /\ lastBm.keys = <<"k2", "k1">>
    /\ Str("k2") \notin DOMAIN db /\ Str("k2") \notin DOMAIN cache
    /\ Str("k1") \in DOMAIN db
    /\ lastBm.elems = db[Str("k1")]
    /\ Cardinality(lastBm.elems) = 2

\* C23: after removeBitmap or removeBitmapSync of an existing key has returned
\* success, the key is in neither the cache nor the backing store and
\* getBitmap(key) returns null; a remove of a key that does not exist returns
\* false and changes nothing.
C23_RemoveEvicts ==
    [][lastBm'.op \in {"removeBitmap", "removeBitmapSync"}
       => IF lastBm'.key \in DOMAIN db
          THEN lastBm'.ret = "true"
               => (/\ lastBm'.key \notin DOMAIN db'
                   /\ lastBm'.key \notin DOMAIN cache'
                   /\ getBitmap(NxtMgr, lastBm'.key).ret = "null")
          ELSE /\ lastBm'.ret = "false"
               /\ db' = db
               /\ cache' = cache]_vars

\* C24: renameBitmap(key, newKey), key existing and newKey not, returns true;
\* afterwards newKey holds exactly the elements key held and key is not found.
C24_RenameMovesSet ==
    [][(/\ lastBm'.op = "renameBitmap"
        /\ lastBm'.key \in DOMAIN db
        /\ Str(lastBm'.keys[1]) \notin DOMAIN db)
       => (/\ lastBm'.ret = "true"
           /\ getBitmap(NxtMgr, Str(lastBm'.keys[1]))
                 = [ret |-> "bitmap", elems |-> getBitmap(CurMgr, lastBm'.key).elems]
           /\ getBitmap(NxtMgr, lastBm'.key).ret = "null")]_vars

\* C25: when renameBitmap or renameBitmapSync does not return true, the caller
\* is told (false or an exception) and the store is consistent: the elements
\* formerly under key are under exactly one of key and newKey, and a set that
\* was under newKey before is unchanged.
C25_RenameFailureConsistent ==
    [][(/\ lastBm'.op \in {"renameBitmap", "renameBitmapSync"}
        /\ lastBm'.ret # "true")
       => LET k == lastBm'.key
              nk == Str(lastBm'.keys[1])
          IN /\ lastBm'.ret \in {"false", "Error", "TypeError"}
             /\ nk \in DOMAIN db => (nk \in DOMAIN db' /\ db'[nk] = db[nk])
             /\ k \in DOMAIN db
                => \/ /\ k \in DOMAIN db' /\ db'[k] = db[k]
                      /\ nk \notin DOMAIN db => nk \notin DOMAIN db'
                   \/ /\ k \notin DOMAIN db'
                      /\ nk \in DOMAIN db' /\ db'[nk] = db[k]]_vars

\* the keys of the list whose set is missing or empty before the call
Stops(keyArray) ==
    {i \in 1..Len(keyArray) :
        Resolved(keyArray[i]).ret = "null" \/ Resolved(keyArray[i]).elems = {}}

\* C31: AND([]) returns the empty set; AND(keys) returns the empty set when
\* it meets a key that is missing or whose set is empty, and getBitmap is
\* called for the keys up to that one and for none of the keys after it.
C31_AndShortCircuits ==
    [][lastBm'.op = "AND"
       => LET keyArray == lastBm'.keys
              r == AND(CurMgr, keyArray)
          IN /\ keyArray = <<>> => lastBm'.ret = "bitmap" /\ lastBm'.elems = {} /\ r.calls = <<>>
             /\ Stops(keyArray) # {}
                => LET first == CHOOSE i \in Stops(keyArray) : \A j \in Stops(keyArray) : i <= j
                   IN /\ lastBm'.ret = "bitmap"
                      /\ lastBm'.elems = {}
                      /\ r.elems = lastBm'.elems
                      /\ r.calls = SubSeq(keyArray, 1, first)]_vars

\* AND has met a missing key in front of a key that holds a set
C31_Witness ==
    /\ lastBm.op = "AND"
    /\ lastBm.keys = <<"k2", "k1">>
    /\ Str("k2") \notin DOMAIN db /\ Str("k2") \notin DOMAIN cache
    /\ Str("k1") \in DOMAIN db /\ db[Str("k1")] # {}
    /\ lastBm.ret = "bitmap"
    /\ lastBm.elems = {}

\* C34: the set-algebra reads leave their operands as they were: after the
\* static AND every supplied set has the elements it had before the call,
\* and after AND(keys) or OR(keys) every set in the cache and in the backing
\* store has the elements it had before.
C34_ReadsKeepOperands ==
    [][/\ lastBm'.op = "staticAND" => Static_AND(lastBm'.keys).sets = lastBm'.keys
       /\ lastBm'.op \in {"AND", "OR"} => db' = db /\ cache' = cache]_vars

====
